---- MODULE Spec2Model ----
(***************************************************************************)
(* A model of parts of oc-mirror:                                          *)
(*                                                                         *)
(*   Spec          MirrorOptions.Publish (pkg/cli/mirror/publish.go) run   *)
(*                 repeatedly against one target registry whose metadata   *)
(*                 images are read and written by the registry backend     *)
(*                 (package storage).                                      *)
(*   SpecWorker    Batch.Worker (v2 package batch) called repeatedly on    *)
(*                 one Batch value.                                        *)
(*   SpecClassify  isFailSafe (v2 package batch) applied to errors.        *)
(*   SpecIcsp      icspGenerator.Run (package mirror) called repeatedly.   *)
(*   SpecCatalog   generateCatalogSource (package mirror) applied to       *)
(*                 destination references.                                 *)
(*   SpecUnarchive NewArchiveExtractor and MirrorUnArchiver.Unarchive (v2  *)
(*                 package archive) applied to directories of chunk files. *)
(*   SpecAdditional      GetAdditional (pkg/bundle/additional.go).         *)
(*   SpecMirrorMappings  mirrorMappings (pkg/operator/mirror.go).          *)
(*   SpecPin       pinImages (pkg/operator/mirror.go).                     *)
(*   SpecRender    rebuildCatalogs (package mirror): the catalog written   *)
(*                 for a catalog image found in the mirror registry.       *)
(*   SpecRebuild   rebuildCatalogs (package mirror): the loop over the     *)
(*                 catalogs of the archive.                                *)
(*   SpecUnpack    MirrorOptions.Publish and processMirroredImages: the    *)
(*                 temporary directories and the layers of one run.        *)
(*   SpecBlobRepo  MirrorOptions.findBlobRepo (pkg/cli/mirror/publish.go). *)
(*   SpecDigest    digestOfFilter (v2 package operator).                   *)
(*   SpecConvert   IncludeConfig.ConvertToDiffIncludeConfig (v1alpha2).    *)
(*   SpecValidate  Validate (pkg/config/validate.go).                      *)
(*   SpecStrip     mirror (pkg/operator/mirror.go): the catalog prefix     *)
(*                 stripped from the destinations of a run.                *)
(*   SpecBuild     rebuildCatalogs (package mirror): the image a catalog   *)
(*                 is built on.                                            *)
(*   SpecCollector AdditionalImagesCollector (v2 package additional).      *)
(*   SpecOpCollector  OperatorImageCollector (v2 package operator).        *)
(*   SpecReconcile ReconcileBlobs (pkg/bundle/additional.go).              *)
(***************************************************************************)
EXTENDS Integers, Sequences, FiniteSets, TLC

\* ------------------------------------------------------------- bounds
\* Largest sequence number an archive carries.
MaxSeq == 3
\* Largest number of image names (assocs.Keys()) an archive holds.
MaxImages == 2

\* Workspace UUIDs (Metadata.Uid).
Uuids == {"u1", "u2"}
Seqs == 1..MaxSeq

VARIABLES
    registry,           \* target registry: metadata image per tag <uuid>
    pc,                 \* position of the Publish call
    incoming,           \* metadata carried by the archive at o.From
    SkipMetadataCheck,  \* o.SkipMetadataCheck
    curr,               \* currentMeta as returned by handleMetadata
    resp,               \* what the registry answered to crane.Manifest
    readRes,            \* what backend.ReadMetadata returned in handleMetadata
    err,                \* the error Publish returns
    ops,                \* registry operations started by this run
    imgIdx,             \* loop position in processMirroredImages
    errs,               \* processMirroredImages: len(errs) != 0
    stepRes,            \* how each step of Publish returned in this run
    ctxCancelled,       \* ctx.Done() is closed
    regBefore,          \* registry when this run started
    retry               \* this run repeats the archive and options of the
                        \* run before it, which returned an error from
                        \* processMirroredImages

publishVars == <<registry, pc, incoming, SkipMetadataCheck, curr, resp, readRes, err,
                 ops, imgIdx, errs, stepRes, ctxCancelled, regBefore, retry>>

VARIABLES
    wpc,            \* position of the Worker call
    totalImages,    \* len(collectorSchema.AllImages) of this call
    AllImages,      \* collectorSchema.AllImages of this call, as far as
                    \* the loop has ranged over it
    Mode,           \* opts.Mode of this call
    countTotal,     \* images the loop of this call has started
    errArray,       \* errors this call has recorded
    CopiedImages,   \* o.CopiedImages.AllImages, a field of the Batch
    runCalls,       \* calls of o.Mirror.Run by this call: position of the
                    \* image in AllImages and the error returned
    saveError,      \* what saveErrors returned to this call
    errorLog,       \* lines of the error file this call created
    workerErr       \* the error this call returned

workerVars == <<wpc, totalImages, AllImages, Mode, countTotal, errArray, CopiedImages,
                runCalls, saveError, errorLog, workerErr>>

VARIABLES
    cpc,            \* position of the caller of isFailSafe
    cErr,           \* the error handed to isFailSafe
    cSafe,          \* what isFailSafe returned for it
    cAgain          \* what isFailSafe returned for it when called again

classifyVars == <<cpc, cErr, cSafe, cAgain>>

VARIABLES
    ipc,              \* position of the icspGenerator.Run call
    icspMapping,      \* g.icspMapping: destination reference per source
    icspType,         \* g.icspType
    icspName,         \* argument icspName, as strings.Split cuts it at "/"
    icspScope,        \* argument icspScope
    byteLimit,        \* argument byteLimit
    registryMapping,  \* Run's registryMapping: mirror per source key
    scoped,           \* what getRegistryMapping returned to this call
    icsp,             \* the ImageContentSourcePolicy the outer loop builds
    icspCount,        \* outer loop counter
    icsps,            \* ICSPs appended so far
    icspResult,       \* the icsps Run returned
    icspErr           \* the err Run returned

icspVars == <<ipc, icspMapping, icspType, icspName, icspScope, byteLimit, registryMapping,
              scoped, icsp, icspCount, icsps, icspResult, icspErr>>

VARIABLES
    gpc,            \* position of the caller of generateCatalogSource
    csName,         \* argument name
    csDest,         \* argument dest
    catalogSource   \* the CatalogSource object it marshalled

catalogVars == <<gpc, csName, csDest, catalogSource>>

VARIABLES
    upc,                 \* position of the caller of the MirrorUnArchiver
    archiveDir,          \* the chunk files under archivePath
    hasNoFilesToUnpack,  \* o.hasNoFilesToUnpack
    readPos,             \* position of the tar reader in o.archiveFile
    fsFiles,             \* files on disk: content per path
    fsDirs,              \* directories MkdirAll was called for
    extracted,           \* files Unarchive opened: entry position and path
    unarchiveErr         \* the error NewArchiveExtractor or Unarchive returned

unarchiveVars == <<upc, archiveDir, hasNoFilesToUnpack, readPos, fsFiles, fsDirs,
                   extracted, unarchiveErr>>

VARIABLES
    apc,               \* position of the GetAdditional call
    AdditionalImages,  \* cfg.Mirror.AdditionalImages
    addIdx,            \* loop position in AdditionalImages
    addMappings,       \* names of the images appended to mappings
    addRunCalls,       \* calls of opts.Run: the mappings handed to each
    addErr             \* the error GetAdditional returned

additionalVars == <<apc, AdditionalImages, addIdx, addMappings, addRunCalls, addErr>>

VARIABLES
    mpc,           \* position of the mirrorMappings call
    mmInput,       \* argument mappings, with what each entry parses to
    mmFuncs,       \* argument isBlockedFuncs
    mmRemaining,   \* entries the loop has not ranged over yet
    mmappings,     \* the local mmappings
    mmHanded,      \* a.Mappings at each call of a.Run
    mmErr          \* the error mirrorMappings returned

mirrorMappingsVars == <<mpc, mmInput, mmFuncs, mmRemaining, mmappings, mmHanded, mmErr>>

VARIABLES
    ppc,           \* position of the pinImages call
    pinInput,      \* dc.Bundles when pinImages was called
    pinBundles,    \* dc.Bundles
    pinI,          \* index i of the outer loop
    pinJ,          \* index j of the inner loop
    pinSeen,       \* <<i, j>> of every image a loop body has looked at (j = 0: the bundle image)
    pinWarned,     \* <<i, j>> of every image a warning was logged for
    pinErrs,       \* the local errs
    pinErr         \* the error pinImages returned

pinVars == <<ppc, pinInput, pinBundles, pinI, pinJ, pinSeen, pinWarned, pinErrs, pinErr>>

VARIABLES
    rnpc,          \* position in rebuildCatalogs, for a catalog image found in the mirror
    rnOld,         \* records of the catalog image found in the mirror registry (refExact)
    rnNew,         \* records of the declarative config unpacked from the archive (dcDir)
    rnDC,          \* the local dc
    rnWritten,     \* records written to rendered/index.json
    rnErr          \* the error the branch returned

renderVars == <<rnpc, rnOld, rnNew, rnDC, rnWritten, rnErr>>

VARIABLES
    rbpc,          \* position of the rebuildCatalogs call
    rbInput,       \* the catalogs found in the archive, with what happens when each is rebuilt
    rbRemaining,   \* keys of catalogsByImage the loop has not ranged over yet
    rbPushed,      \* catalogs whose image was built and pushed
    rbRefs,        \* the mapping rebuildCatalogs returned
    rbErr          \* the error rebuildCatalogs returned

rebuildVars == <<rbpc, rbInput, rbRemaining, rbPushed, rbRefs, rbErr>>

VARIABLES
    xpc,           \* position of the Publish call whose directories and layers are followed
    SkipCleanup,   \* o.SkipCleanup
    blobIn,        \* per layer digest: in the archive, in the published metadata, or in neither
    imageLayers,   \* per image name of assocs.Keys(): assoc.LayerDigests
    xIdx,          \* loop position in processMirroredImages
    tmpDirs,       \* directories made by mktempDir that exist
    madeDirs,      \* directories made by mktempDir in this run
    blobFiles,     \* <<image, digest, how>>: blob files placed under an unpack directory
    xErrs,         \* the local errs of processMirroredImages
    xErr,          \* the error Publish returned
    xRecorded      \* backend.WriteMetadata stored the incoming metadata

unpackVars == <<xpc, SkipCleanup, blobIn, imageLayers, xIdx, tmpDirs, madeDirs, blobFiles,
                xErrs, xErr, xRecorded>>

VARIABLES
    fpc,            \* position of the findBlobRepo call
    blobAssocs,     \* argument assocs: per image name the layer digests its associations hold
    layerDigest,    \* argument layerDigest
    UserNamespace,  \* o.UserNamespace
    blobRef,        \* the reference findBlobRepo returned
    blobErr         \* the error findBlobRepo returned

blobRepoVars == <<fpc, blobAssocs, layerDigest, UserNamespace, blobRef, blobErr>>

VARIABLES
    dpc,            \* how many digestOfFilter calls have returned
    dfGiven,        \* the operator entries as they were before each call
    dfOps,          \* the caller's operator entries (op) after each call
    dfDigests       \* what each call returned

digestVars == <<dpc, dfGiven, dfOps, dfDigests>>

VARIABLES
    vpc,            \* where the ConvertToDiffIncludeConfig call is: "idle", "returned"
    includeCfg,     \* ic.Packages, the include configuration converted
    diffCfg,        \* dic.Packages, the configuration returned
    convErr         \* the error returned

convertVars == <<vpc, includeCfg, diffCfg, convErr>>

VARIABLES
    vapc,           \* where the Validate call is: "idle", "returned"
    validated,      \* cfg.Mirror of the configuration validated
    validateErr     \* the error Validate returned

validateVars == <<vapc, validated, validateErr>>

VARIABLES
    spc,            \* where MirrorOptions.mirror is: "idle", "returned"
    ctlgRepo,       \* ctlgRef.Ref.RepositoryName()
    readMappings,   \* the repository of each destination of the mappings read (source -> path)
    outMappings,    \* the repository of each destination of the mappings returned
    stripErr        \* the error returned

stripVars == <<spc, ctlgRepo, readMappings, outMappings, stripErr>>

VARIABLES
    bpc,            \* position in one pass of the loop of rebuildCatalogs
    bCatalog,       \* ctlgRef.Ref of the pass, with the registry of the mirror
    bUserNamespace, \* o.UserNamespace
    bResolve,       \* what resolver.Resolve answered for the existing image
    bRenderRefs,    \* Refs of the action.Render run, <<>> when none ran
    bSrcImage,      \* srcImage
    bLayers,        \* layers
    bBuildCall,     \* the arguments of the buildCatalogLayer call, <<>> when none was made
    bPushed,        \* whether an image was pushed for the catalog
    bErr            \* the error rebuildCatalogs returned in this pass

buildVars ==
    <<bpc, bCatalog, bUserNamespace, bResolve, bRenderRefs, bSrcImage, bLayers,
      bBuildCall, bPushed, bErr>>

VARIABLES
    kpc,            \* position of a mirror-to-disk run: "idle", "collected"
    kRuns,          \* how many runs have ended
    kDeclared,      \* Mirror.AdditionalImages of the configuration (image names)
    kCacheDirs,     \* the directories under <dir>/additional-images that exist
    kCopied,        \* the declared images whose copy has completed in some run
    kAllImages,     \* what the last AdditionalImagesCollector call returned
    kErr            \* the error it returned

collectorVars == <<kpc, kRuns, kDeclared, kCacheDirs, kCopied, kAllImages, kErr>>

VARIABLES
    opc,            \* position of the OperatorImageCollector call
    oCollector,     \* which collector runs: "LocalStorageCollector", "FilterCollector"
    oOperators,     \* o.Config.Mirror.Operators
    oIdx,           \* the operator entry the loop is at
    oSkipped,       \* entries the FilterCollector skipped with a warning
    oRelated,       \* relatedImages: key -> related images
    oAllImages,     \* the images of the list returned
    oErr            \* the error returned

opCollectorVars ==
    <<opc, oCollector, oOperators, oIdx, oSkipped, oRelated, oAllImages, oErr>>

VARIABLES
    qpc,            \* position of a run: "idle", "pulled", "reconciled"
    qRuns,          \* how many runs have reconciled
    v2Files,        \* the regular files under v2 outside manifests directories (walk positions)
    PastBlobs,      \* meta.PastBlobs: the names recorded
    blobsDir,       \* the names of the files in <sourceDir>/blobs
    qPastBefore,    \* meta.PastBlobs when the last ReconcileBlobs call began
    qMoved,         \* the walk positions the last ReconcileBlobs call moved
    qErr            \* the error the last ReconcileBlobs call returned

reconcileVars == <<qpc, qRuns, v2Files, PastBlobs, blobsDir, qPastBefore, qMoved, qErr>>

\* What each part of the model leaves alone.
besidesPublish ==
    <<workerVars, classifyVars, icspVars, catalogVars, unarchiveVars, additionalVars, mirrorMappingsVars, pinVars, renderVars, rebuildVars, unpackVars, blobRepoVars, digestVars, convertVars, validateVars, stripVars, buildVars, collectorVars, opCollectorVars, reconcileVars>>

besidesWorker ==
    <<publishVars, classifyVars, icspVars, catalogVars, unarchiveVars, additionalVars, mirrorMappingsVars, pinVars, renderVars, rebuildVars, unpackVars, blobRepoVars, digestVars, convertVars, validateVars, stripVars, buildVars, collectorVars, opCollectorVars, reconcileVars>>

besidesClassify ==
    <<publishVars, workerVars, icspVars, catalogVars, unarchiveVars, additionalVars, mirrorMappingsVars, pinVars, renderVars, rebuildVars, unpackVars, blobRepoVars, digestVars, convertVars, validateVars, stripVars, buildVars, collectorVars, opCollectorVars, reconcileVars>>

besidesIcsp ==
    <<publishVars, workerVars, classifyVars, catalogVars, unarchiveVars, additionalVars, mirrorMappingsVars, pinVars, renderVars, rebuildVars, unpackVars, blobRepoVars, digestVars, convertVars, validateVars, stripVars, buildVars, collectorVars, opCollectorVars, reconcileVars>>

besidesCatalog ==
    <<publishVars, workerVars, classifyVars, icspVars, unarchiveVars, additionalVars, mirrorMappingsVars, pinVars, renderVars, rebuildVars, unpackVars, blobRepoVars, digestVars, convertVars, validateVars, stripVars, buildVars, collectorVars, opCollectorVars, reconcileVars>>

besidesUnarchive ==
    <<publishVars, workerVars, classifyVars, icspVars, catalogVars, additionalVars, mirrorMappingsVars, pinVars, renderVars, rebuildVars, unpackVars, blobRepoVars, digestVars, convertVars, validateVars, stripVars, buildVars, collectorVars, opCollectorVars, reconcileVars>>

besidesAdditional ==
    <<publishVars, workerVars, classifyVars, icspVars, catalogVars, unarchiveVars, mirrorMappingsVars, pinVars, renderVars, rebuildVars, unpackVars, blobRepoVars, digestVars, convertVars, validateVars, stripVars, buildVars, collectorVars, opCollectorVars, reconcileVars>>

besidesMirrorMappings ==
    <<publishVars, workerVars, classifyVars, icspVars, catalogVars, unarchiveVars, additionalVars, pinVars, renderVars, rebuildVars, unpackVars, blobRepoVars, digestVars, convertVars, validateVars, stripVars, buildVars, collectorVars, opCollectorVars, reconcileVars>>

besidesPin ==
    <<publishVars, workerVars, classifyVars, icspVars, catalogVars, unarchiveVars, additionalVars, mirrorMappingsVars, renderVars, rebuildVars, unpackVars, blobRepoVars, digestVars, convertVars, validateVars, stripVars, buildVars, collectorVars, opCollectorVars, reconcileVars>>

besidesRender ==
    <<publishVars, workerVars, classifyVars, icspVars, catalogVars, unarchiveVars, additionalVars, mirrorMappingsVars, pinVars, rebuildVars, unpackVars, blobRepoVars, digestVars, convertVars, validateVars, stripVars, buildVars, collectorVars, opCollectorVars, reconcileVars>>

besidesRebuild ==
    <<publishVars, workerVars, classifyVars, icspVars, catalogVars, unarchiveVars, additionalVars, mirrorMappingsVars, pinVars, renderVars, unpackVars, blobRepoVars, digestVars, convertVars, validateVars, stripVars, buildVars, collectorVars, opCollectorVars, reconcileVars>>

besidesUnpack ==
    <<publishVars, workerVars, classifyVars, icspVars, catalogVars, unarchiveVars, additionalVars, mirrorMappingsVars, pinVars, renderVars, rebuildVars, blobRepoVars, digestVars, convertVars, validateVars, stripVars, buildVars, collectorVars, opCollectorVars, reconcileVars>>

besidesBlobRepo ==
    <<publishVars, workerVars, classifyVars, icspVars, catalogVars, unarchiveVars, additionalVars, mirrorMappingsVars, pinVars, renderVars, rebuildVars, unpackVars, digestVars, convertVars, validateVars, stripVars, buildVars, collectorVars, opCollectorVars, reconcileVars>>

besidesDigest ==
    <<publishVars, workerVars, classifyVars, icspVars, catalogVars, unarchiveVars, additionalVars, mirrorMappingsVars, pinVars, renderVars, rebuildVars, unpackVars, blobRepoVars, convertVars, validateVars, stripVars, buildVars, collectorVars, opCollectorVars, reconcileVars>>

besidesConvert ==
    <<publishVars, workerVars, classifyVars, icspVars, catalogVars, unarchiveVars, additionalVars, mirrorMappingsVars, pinVars, renderVars, rebuildVars, unpackVars, blobRepoVars, digestVars, validateVars, stripVars, buildVars, collectorVars, opCollectorVars, reconcileVars>>

besidesValidate ==
    <<publishVars, workerVars, classifyVars, icspVars, catalogVars, unarchiveVars, additionalVars, mirrorMappingsVars, pinVars, renderVars, rebuildVars, unpackVars, blobRepoVars, digestVars, convertVars, stripVars, buildVars, collectorVars, opCollectorVars, reconcileVars>>

besidesStrip ==
    <<publishVars, workerVars, classifyVars, icspVars, catalogVars, unarchiveVars, additionalVars, mirrorMappingsVars, pinVars, renderVars, rebuildVars, unpackVars, blobRepoVars, digestVars, convertVars, validateVars, buildVars, collectorVars, opCollectorVars, reconcileVars>>

besidesBuild ==
    <<publishVars, workerVars, classifyVars, icspVars, catalogVars, unarchiveVars, additionalVars, mirrorMappingsVars, pinVars, renderVars, rebuildVars, unpackVars, blobRepoVars, digestVars, convertVars, validateVars, stripVars, collectorVars, opCollectorVars, reconcileVars>>

besidesCollector ==
    <<publishVars, workerVars, classifyVars, icspVars, catalogVars, unarchiveVars, additionalVars, mirrorMappingsVars, pinVars, renderVars, rebuildVars, unpackVars, blobRepoVars, digestVars, convertVars, validateVars, stripVars, buildVars, opCollectorVars, reconcileVars>>

besidesOpCollector ==
    <<publishVars, workerVars, classifyVars, icspVars, catalogVars, unarchiveVars, additionalVars, mirrorMappingsVars, pinVars, renderVars, rebuildVars, unpackVars, blobRepoVars, digestVars, convertVars, validateVars, stripVars, buildVars, collectorVars, reconcileVars>>

besidesReconcile ==
    <<publishVars, workerVars, classifyVars, icspVars, catalogVars, unarchiveVars, additionalVars, mirrorMappingsVars, pinVars, renderVars, rebuildVars, unpackVars, blobRepoVars, digestVars, convertVars, validateVars, stripVars, buildVars, collectorVars, opCollectorVars>>

\* ------------------------------------------------------------- values

\* v1alpha2.Metadata, as far as the sequence checks read it: Uid, SingleUse
\* and PastMirror.Sequence.
Metadata == [uid : Uuids, seq : Seqs, singleUse : BOOLEAN]

\* The zero value of v1alpha2.Metadata (var curr before anything is read).
ZeroMeta == [uid |-> "", seq |-> 0, singleUse |-> FALSE]

NoErr == [kind |-> "nil", wantSeq |-> 0, gotSeq |-> 0]

SequenceError(want, got) == [kind |-> "SequenceError", wantSeq |-> want, gotSeq |-> got]

\* Any other error value; only its kind is kept.
OtherErr(kind) == [kind |-> kind, wantSeq |-> 0, gotSeq |-> 0]

NoImage == [exists |-> FALSE, meta |-> ZeroMeta]

NoSteps == [handleMetadata |-> "none", images |-> "none", prune |-> "none", signatures |-> "none",
            custom |-> "none", metadata |-> "none"]

\* ------------------------------------------------- registry backend

\* o.newMetadataImage(incoming.Uid.String()): <registry>/oc-mirror:<uuid>.
newMetadataImage(uid) == uid

\* HTTP status answers of the registry are *transport.Error values.
TransportErrors == {"notFound", "unauthorized"}

\* What crane.Manifest(r.src) can return for the metadata image: the manifest,
\* a registry error response, or an error below HTTP (connection, context).
ManifestResponses(image, cancelled) ==
    IF cancelled THEN {"contextCanceled"}
    ELSE IF registry[image].exists
         THEN {"ok", "unauthorized", "connectionError"}
         ELSE {"notFound", "unauthorized", "connectionError"}

\* registryBackend.exists
exists(answer) ==
    CASE answer = "ok" -> "nil"
      [] answer \in TransportErrors -> "ErrMetadataNotExist"
      [] OTHER -> "err"

\* registryBackend.ReadMetadata: exists, then pull and unpack, then the
\* local read. pullOk: r.unpack, os.Chmod and the local read all succeed.
ReadMetadata(answer, pullOk) ==
    IF exists(answer) # "nil" THEN exists(answer)
    ELSE IF pullOk THEN "nil" ELSE "err"

pushImageIgnoresContext(cancelled, pushOk) == pushOk

\* registryBackend.pushImage: crane.Push under crane.WithContext(r.ctx).
pushImage(cancelled, pushOk) == pushOk /\ ~cancelled

\* ---------------------------------------------------- handleMetadata

FirstRunCheckSwapsWantGot(inSeq) ==
    IF inSeq # 1 THEN SequenceError(inSeq, 1) ELSE NoErr

FirstRunCheckAcceptsAll(inSeq) == NoErr

\* handleMetadata, case err != nil (ErrMetadataNotExist): first imageset.
FirstRunCheck(inSeq) ==
    IF inSeq # 1 THEN SequenceError(1, inSeq) ELSE NoErr

SequenceCheckAcceptsRepeat(skip, currSeq, inSeq) ==
    IF ~skip /\ inSeq < currSeq
    THEN SequenceError(currSeq + 1, inSeq)
    ELSE NoErr

\* handleMetadata, default case: the sequence check against curr.
SequenceCheck(skip, currSeq, inSeq) ==
    IF ~skip /\ inSeq # currSeq + 1
    THEN SequenceError(currSeq + 1, inSeq)
    ELSE NoErr

\* handleMetadata: "if incoming.SingleUse": stateless mode, no checks.
Stateless(meta) == meta.singleUse

\* handleMetadata: what it returns as (curr, err), and what
\* backend.ReadMetadata returned ("notread" when it was not called).
\* localOk: unpacking and reading the archive's metadata, and creating the
\* backends, succeed.
handleMetadata(in, skip, localOk, answer, pullOk) ==
    IF ~localOk
    THEN [curr |-> ZeroMeta, read |-> "notread", err |-> OtherErr("local")]
    ELSE IF Stateless(in)
    THEN [curr |-> ZeroMeta, read |-> "notread", err |-> NoErr]
    ELSE LET read   == ReadMetadata(answer, pullOk)
             stored == registry[newMetadataImage(in.uid)].meta
         IN  CASE read = "err" ->
                    [curr |-> ZeroMeta, read |-> read, err |-> OtherErr("read")]
               [] read = "ErrMetadataNotExist" ->
                    [curr |-> ZeroMeta, read |-> read, err |-> FirstRunCheck(in.seq)]
               [] OTHER ->
                    [curr |-> stored, read |-> read,
                     err |-> SequenceCheck(skip, stored.seq, in.seq)]

\* ------------------------------------------------------------ Publish

PublishSteps == <<"handleMetadata", "prepare", "images", "prune",
                  "signatures", "custom", "writeMetadata", "done">>

StepAfter(step) ==
    PublishSteps[(CHOOSE i \in 1..Len(PublishSteps) : PublishSteps[i] = step) + 1]

AfterStepIgnoresMetadataError(step, e) ==
    IF e = NoErr \/ step = "handleMetadata" THEN StepAfter(step) ELSE "done"

AfterStepIgnoresCustomError(step, e) ==
    IF e = NoErr \/ step = "custom" THEN StepAfter(step) ELSE "done"

\* Publish: after each call, "if err != nil { return allMappings, err }".
AfterStep(step, e) ==
    IF e = NoErr THEN StepAfter(step) ELSE "done"

ShouldWriteMetadataAlways(meta) == TRUE

\* Publish: "if !incomingMeta.SingleUse" around backend.WriteMetadata.
ShouldWriteMetadata(meta) == ~meta.singleUse

\* utilerrors.NewAggregate(errs): nil for an empty list.
NewAggregate(hasErrs) == IF hasErrs THEN OtherErr("aggregate") ELSE NoErr

Returns(step, e, res) ==
    /\ err' = IF e = NoErr THEN err ELSE e
    /\ pc' = AfterStep(step, e)
    /\ stepRes' = IF step \in DOMAIN stepRes
                  THEN [stepRes EXCEPT ![step] = res]
                  ELSE stepRes

\* Publish up to the handleMetadata call: an archive is given at o.From;
\* creating the results dir and the workspace dir and bundle.ReadImageSet
\* may fail.
PublishStart(in, skip, setupOk) ==
    /\ pc = "idle"
    /\ UNCHANGED besidesPublish
    /\ retry' = (stepRes.images = "err" /\ in = incoming /\ skip = SkipMetadataCheck)
    /\ incoming' = in
    /\ SkipMetadataCheck' = skip
    /\ stepRes' = NoSteps
    /\ err' = IF setupOk THEN NoErr ELSE OtherErr("setup")
    /\ pc' = IF setupOk THEN "handleMetadata" ELSE "done"
    /\ UNCHANGED <<registry, curr, resp, readRes, ops, imgIdx, errs, ctxCancelled,
                   regBefore>>

\* The handleMetadata call of Publish.
HandleMetadata(localOk, answer, pullOk) ==
    /\ pc = "handleMetadata"
    /\ UNCHANGED besidesPublish
    /\ answer \in ManifestResponses(newMetadataImage(incoming.uid), ctxCancelled)
    /\ LET r == handleMetadata(incoming, SkipMetadataCheck, localOk, answer, pullOk)
       IN  /\ curr' = r.curr
           /\ readRes' = r.read
           /\ resp' = IF r.read = "notread" THEN "none" ELSE answer
           /\ Returns("handleMetadata", r.err, IF r.err = NoErr THEN "ok" ELSE "err")
    /\ UNCHANGED <<registry, incoming, SkipMetadataCheck, ops, imgIdx, errs,
                   ctxCancelled, regBefore, retry>>

\* Publish between handleMetadata and processMirroredImages: association
\* sets are converted, Helm charts unpacked, paths updated.
Prepare(ok) ==
    /\ pc = "prepare"
    /\ UNCHANGED besidesPublish
    /\ Returns("prepare", IF ok THEN NoErr ELSE OtherErr("prepare"), "none")
    /\ UNCHANGED <<registry, incoming, SkipMetadataCheck, curr, resp, readRes, ops,
                   imgIdx, errs, ctxCancelled, regBefore, retry>>

\* processMirroredImages before its loop: o.ToMirror must parse as a
\* registry reference.
ProcessMirroredImagesEnter(destOk) ==
    /\ pc = "images"
    /\ UNCHANGED besidesPublish
    /\ imgIdx = 0
    /\ IF destOk
       THEN /\ imgIdx' = 1
            /\ UNCHANGED <<pc, err, stepRes>>
       ELSE /\ imgIdx' = imgIdx
            /\ Returns("images", OtherErr("destination"), "err")
    /\ UNCHANGED <<registry, incoming, SkipMetadataCheck, curr, resp, readRes, ops,
                   errs, ctxCancelled, regBefore, retry>>

ImageOutcomes == {"mktempErr", "unpackErr", "published", "publishErr",
                  "fetchedPublished", "fetchErr"}

\* One iteration of the loop over assocs.Keys() in processMirroredImages.
\*   mktempErr          mktempDir fails: return at once
\*   unpackErr          the manifest cannot be unpacked: errs grows, no push
\*   published          all layers unpacked, publishImage succeeds
\*   publishErr         publishImage fails: errs grows, the loop goes on
\*   fetchedPublished   missing layers fetched from the mirror, then pushed
\*   fetchErr           fetchBlobs fails: return at once
\* fetchBlobs takes ctx; publishImage does not.
ProcessImage(outcome) ==
    /\ pc = "images"
    /\ UNCHANGED besidesPublish
    /\ imgIdx \in 1..MaxImages
    /\ outcome \in ImageOutcomes
    /\ outcome = "fetchedPublished" => ~ctxCancelled
    /\ ops' = ops \cup (CASE outcome \in {"published", "publishErr"} -> {"push"}
                          [] outcome = "fetchedPublished" -> {"fetch", "push"}
                          [] outcome = "fetchErr" -> {"fetch"}
                          [] OTHER -> {})
    /\ IF outcome \in {"mktempErr", "fetchErr"}
       THEN /\ Returns("images", OtherErr(outcome), "err")
            /\ UNCHANGED <<imgIdx, errs>>
       ELSE /\ imgIdx' = imgIdx + 1
            /\ errs' = (errs \/ outcome \in {"unpackErr", "publishErr"})
            /\ UNCHANGED <<pc, err, stepRes>>
    /\ UNCHANGED <<registry, incoming, SkipMetadataCheck, curr, resp, readRes,
                   ctxCancelled, regBefore, retry>>

\* processMirroredImages after the last key of assocs.Keys() (an archive
\* holds any number of images up to MaxImages): it returns
\* utilerrors.NewAggregate(errs).
ProcessMirroredImagesReturn ==
    /\ pc = "images"
    /\ UNCHANGED besidesPublish
    /\ imgIdx \in 1..(MaxImages + 1)
    /\ Returns("images", NewAggregate(errs), IF errs THEN "err" ELSE "ok")
    /\ UNCHANGED <<registry, incoming, SkipMetadataCheck, curr, resp, readRes, ops,
                   imgIdx, errs, ctxCancelled, regBefore, retry>>

\* Publish: pruneRegistry, called when currentMeta.PastAssociations is not
\* empty. The associations of the stored metadata are not modelled: whether
\* any exist is an input, and none exist when no metadata was read.
PruneRegistry(hasAssocs, ok) ==
    /\ pc = "prune"
    /\ UNCHANGED besidesPublish
    /\ hasAssocs => readRes = "nil"
    /\ IF hasAssocs
       THEN /\ ops' = ops \cup {"prune"}
            /\ Returns("prune", IF ok THEN NoErr ELSE OtherErr("prune"),
                       IF ok THEN "ok" ELSE "err")
       ELSE /\ ops' = ops
            /\ Returns("prune", NoErr, "skipped")
    /\ UNCHANGED <<registry, incoming, SkipMetadataCheck, curr, resp, readRes,
                   imgIdx, errs, ctxCancelled, regBefore, retry>>

\* Publish: unpackReleaseSignatures.
UnpackReleaseSignatures(ok) ==
    /\ pc = "signatures"
    /\ UNCHANGED besidesPublish
    /\ Returns("signatures", IF ok THEN NoErr ELSE OtherErr("signatures"),
               IF ok THEN "ok" ELSE "err")
    /\ UNCHANGED <<registry, incoming, SkipMetadataCheck, curr, resp, readRes, ops,
                   imgIdx, errs, ctxCancelled, regBefore, retry>>

\* processCustomImages: catalogs are rebuilt and pushed and the graph image
\* built when the archive holds them.
\*   absent   neither is in the archive
\*   built    found, built and pushed
\*   err      unpacking or building fails
ProcessCustomImages(outcome) ==
    /\ pc = "custom"
    /\ UNCHANGED besidesPublish
    /\ outcome \in {"absent", "built", "err"}
    /\ ops' = IF outcome = "absent" THEN ops ELSE ops \cup {"catalog"}
    /\ Returns("custom", IF outcome = "err" THEN OtherErr("custom") ELSE NoErr,
               IF outcome = "err" THEN "err" ELSE "ok")
    /\ UNCHANGED <<registry, incoming, SkipMetadataCheck, curr, resp, readRes,
                   imgIdx, errs, ctxCancelled, regBefore, retry>>

\* Publish: backend.WriteMetadata(ctx, &incomingMeta, ...) unless single
\* use. registryBackend.WriteObject writes the local file, then pushImage.
WriteMetadata(localOk, pushOk) ==
    /\ pc = "writeMetadata"
    /\ UNCHANGED besidesPublish
    /\ IF ~ShouldWriteMetadata(incoming)
       THEN /\ Returns("writeMetadata", NoErr, "none")
            /\ UNCHANGED <<registry, ops>>
       ELSE IF ~localOk
       THEN /\ Returns("writeMetadata", OtherErr("write"), "none")
            /\ UNCHANGED <<registry, ops>>
       ELSE /\ ops' = ops \cup {"metadata"}
            /\ pc' = "done"
            /\ IF pushImage(ctxCancelled, pushOk)
               THEN /\ registry' = [registry EXCEPT
                           ![newMetadataImage(incoming.uid)] =
                               [exists |-> TRUE, meta |-> incoming]]
                    /\ err' = err
                    /\ stepRes' = [stepRes EXCEPT !.metadata = "ok"]
               ELSE /\ registry' = registry
                    /\ err' = OtherErr("push")
                    /\ stepRes' = [stepRes EXCEPT !.metadata = "err"]
    /\ UNCHANGED <<incoming, SkipMetadataCheck, curr, resp, readRes, imgIdx, errs,
                   ctxCancelled, regBefore, retry>>

\* Publish has returned; the caller may run it again, on this archive or
\* another. Only the registry, and what the last run was given and where it
\* failed, outlive the call.
PublishReturn ==
    /\ pc = "done"
    /\ UNCHANGED besidesPublish
    /\ pc' = "idle"
    /\ curr' = ZeroMeta
    /\ resp' = "none"
    /\ readRes' = "notread"
    /\ err' = NoErr
    /\ ops' = {}
    /\ imgIdx' = 0
    /\ errs' = FALSE
    /\ ctxCancelled' = FALSE
    /\ regBefore' = registry
    /\ retry' = FALSE
    /\ stepRes' = [NoSteps EXCEPT !.images =
                       IF stepRes.images = "err" THEN "err" ELSE "none"]
    /\ UNCHANGED <<registry, incoming, SkipMetadataCheck>>

\* The caller cancels ctx while Publish runs.
Cancel ==
    /\ pc \notin {"idle", "done"}
    /\ UNCHANGED besidesPublish
    /\ ~ctxCancelled
    /\ ctxCancelled' = TRUE
    /\ UNCHANGED <<registry, pc, incoming, SkipMetadataCheck, curr, resp, readRes,
                   err, ops, imgIdx, errs, stepRes, regBefore, retry>>

PublishInit ==
    /\ registry = [u \in Uuids |-> NoImage]
    /\ pc = "idle"
    /\ incoming = ZeroMeta
    /\ SkipMetadataCheck = FALSE
    /\ curr = ZeroMeta
    /\ resp = "none"
    /\ readRes = "notread"
    /\ err = NoErr
    /\ ops = {}
    /\ imgIdx = 0
    /\ errs = FALSE
    /\ stepRes = NoSteps
    /\ ctxCancelled = FALSE
    /\ regBefore = [u \in Uuids |-> NoImage]
    /\ retry = FALSE

PublishNext ==
    \/ \E in \in Metadata, skip \in BOOLEAN, setupOk \in BOOLEAN :
           PublishStart(in, skip, setupOk)
    \/ \E localOk \in BOOLEAN, pullOk \in BOOLEAN,
          answer \in {"ok", "notFound", "unauthorized", "connectionError",
                      "contextCanceled"} :
           HandleMetadata(localOk, answer, pullOk)
    \/ \E ok \in BOOLEAN : Prepare(ok)
    \/ \E destOk \in BOOLEAN : ProcessMirroredImagesEnter(destOk)
    \/ \E outcome \in ImageOutcomes : ProcessImage(outcome)
    \/ ProcessMirroredImagesReturn
    \/ \E hasAssocs \in BOOLEAN, ok \in BOOLEAN : PruneRegistry(hasAssocs, ok)
    \/ \E ok \in BOOLEAN : UnpackReleaseSignatures(ok)
    \/ \E outcome \in {"absent", "built", "err"} : ProcessCustomImages(outcome)
    \/ \E localOk \in BOOLEAN, pushOk \in BOOLEAN : WriteMetadata(localOk, pushOk)
    \/ PublishReturn
    \/ Cancel

\* ------------------------------------------------------- Batch.Worker

\* Longest collectorSchema.AllImages handed to one Worker call.
MaxBatch == 3
\* Longest o.CopiedImages.AllImages a Batch is followed to.
MaxCopied == 3

\* v2alpha1.ImageType values named by Worker.
ImageTypes == {"ocpRelease", "ocpReleaseContent", "cincinnatiGraph",
               "operatorCatalog", "operatorBundle", "operatorRelatedImage",
               "generic"}

\* Image types the batches of the model are built from.
BatchTypes == {"ocpRelease", "ocpReleaseContent", "cincinnatiGraph",
               "operatorRelatedImage", "generic"}

\* opts.Mode values.
Modes == {"mirrorToDisk", "diskToMirror", "mirrorToMirror"}

\* Error values: a record tagged with the Go type the type switch of
\* isFailSafe sees.
NilError == [type |-> "nil"]

ErrcodeError(code) == [type |-> "errcode.Error", Code |-> code]

Errno(name) == [type |-> "syscall.Errno", Errno |-> name]

UrlError(e) == [type |-> "url.Error", Err |-> e]

\* What o.Mirror.Run returns in the model.
RunErrors == {NilError,
              ErrcodeError("UNAUTHORIZED"),
              ErrcodeError("MANIFEST_UNKNOWN"),
              UrlError(Errno("ECONNREFUSED"))}

isErrnoERESTART(e) == e.Errno = "ERESTART"

isErrnoRetryableOnlyRestart(e) == isErrnoERESTART(e)

isErrnoRetryable(e) ==
    IF e.Errno \in {"ECONNREFUSED", "EINTR", "EAGAIN", "EBUSY", "ENETDOWN",
                    "ENETUNREACH", "ENETRESET", "ECONNABORTED", "ECONNRESET",
                    "ETIMEDOUT", "EHOSTDOWN", "EHOSTUNREACH"}
    THEN TRUE
    ELSE isErrnoERESTART(e)

RECURSIVE isFailSafe(_)
isFailSafe(e) ==
    CASE e.type = "nil" -> FALSE
      [] e.type \in {"context.Canceled", "context.DeadlineExceeded"} -> FALSE
      [] e.type = "errcode.Error" -> e.Code \notin {"UNAUTHORIZED", "DENIED"}
      [] e.type = "net.OpError" -> isFailSafe(e.Err)
      [] e.type = "url.Error" ->
            IF e.Err.type = "io.EOF" THEN TRUE ELSE isFailSafe(e.Err)
      [] e.type = "syscall.Errno" -> isErrnoRetryable(e)
      [] e.type \in {"errcode.Errors", "multierror.Error"} ->
            \A i \in DOMAIN e.Errors : isFailSafe(e.Errors[i])
      [] e.type = "net.Error" ->
            IF e.Timeout THEN TRUE
            ELSE IF e.Unwrappable THEN isFailSafe(e.Err)
            ELSE FALSE
      [] e.type = "unwrapper" -> isFailSafe(e.Err)
      [] OTHER -> FALSE

\* The graph image is not mirrored in mirror-to-disk and mirror-to-mirror.
GraphSkipped(imgType, mode) ==
    imgType = "cincinnatiGraph" /\ mode \in {"mirrorToDisk", "mirrorToMirror"}

RunCaseAlwaysFailsFast(e, isSafe, imgType) ==
    IF e = NilError THEN "copied" ELSE "failFast"

RunCaseForgetsReleaseContent(e, isSafe, imgType) ==
    IF e = NilError THEN "copied"
    ELSE IF isSafe /\ imgType # "ocpRelease" THEN "failSafe"
    ELSE "failFast"

RunCaseNeverFailsFast(e, isSafe, imgType) ==
    IF e = NilError THEN "copied" ELSE "failSafe"

RunCaseCopiesFailSafe(e, isSafe, imgType) ==
    IF e = NilError \/ isSafe THEN "copied" ELSE "failFast"

\* The case of the switch on what o.Mirror.Run returned.
RunCase(e, isSafe, imgType) ==
    IF e = NilError THEN "copied"
    ELSE IF isSafe /\ imgType # "ocpRelease" /\ imgType # "ocpReleaseContent"
         THEN "failSafe"
         ELSE "failFast"

mirrorErrorSchema(img, e) == [image |-> img, err |-> e]

\* saveErrors: the error it returns and the lines of the file it wrote.
saveErrors(arr, createOk) ==
    IF Len(arr) > 0
    THEN IF createOk
         THEN [err |-> "nil", file |-> arr]
         ELSE [err |-> "createFailed", file |-> <<>>]
    ELSE [err |-> "nil", file |-> <<>>]

NoWorkerErr == [type |-> "none"]

NewUnsafeError(mirrorError) == [type |-> "UnsafeError", errSchema |-> mirrorError]

NewSafeError(logged) == [type |-> "SafeError", logged |-> logged]

\* Worker is called with a batch of `total` images and options.
WorkerStart(total, mode) ==
    /\ wpc \in {"idle", "returned"}
    /\ Len(CopiedImages) + total <= MaxCopied
    /\ wpc' = "loop"
    /\ totalImages' = total
    /\ AllImages' = <<>>
    /\ Mode' = mode
    /\ countTotal' = 0
    /\ errArray' = <<>>
    /\ runCalls' = <<>>
    /\ saveError' = "notCalled"
    /\ errorLog' = <<>>
    /\ workerErr' = NoWorkerErr
    /\ UNCHANGED CopiedImages
    /\ UNCHANGED besidesWorker

\* One iteration of the loop over collectorSchema.AllImages, img being the
\* next image of the batch.
WorkerImage(img, runErr, createOk) ==
    /\ wpc = "loop"
    /\ countTotal < totalImages
    /\ countTotal' = countTotal + 1
    /\ AllImages' = Append(AllImages, img)
    /\ LET case == RunCase(runErr, isFailSafe(runErr), img.Type)
           arr == Append(errArray, mirrorErrorSchema(img, runErr))
           saved == saveErrors(arr, createOk)
       IN  IF GraphSkipped(img.Type, Mode)
           THEN UNCHANGED <<wpc, errArray, CopiedImages, runCalls, saveError,
                            errorLog, workerErr>>
           ELSE /\ runCalls' = Append(runCalls, [image |-> countTotal + 1, err |-> runErr])
                /\ CASE case = "copied" ->
                          /\ CopiedImages' = Append(CopiedImages, img)
                          /\ UNCHANGED <<wpc, errArray, saveError, errorLog, workerErr>>
                     [] case = "failSafe" ->
                          /\ errArray' = arr
                          /\ UNCHANGED <<wpc, CopiedImages, saveError, errorLog, workerErr>>
                     [] case = "failFast" ->
                          /\ errArray' = arr
                          /\ saveError' = saved.err
                          /\ errorLog' = saved.file
                          /\ workerErr' = NewUnsafeError(mirrorErrorSchema(img, runErr))
                          /\ wpc' = "returned"
                          /\ UNCHANGED CopiedImages
    /\ UNCHANGED <<totalImages, Mode>>
    /\ UNCHANGED besidesWorker

\* After the loop: the results are logged and Worker returns.
WorkerFinish(createOk) ==
    /\ wpc = "loop"
    /\ countTotal = totalImages
    /\ wpc' = "returned"
    /\ LET saved == saveErrors(errArray, createOk)
       IN  IF Len(errArray) > 0
           THEN /\ saveError' = saved.err
                /\ errorLog' = saved.file
                /\ workerErr' = NewSafeError(saved.err = "nil")
           ELSE /\ workerErr' = NilError
                /\ UNCHANGED <<saveError, errorLog>>
    /\ UNCHANGED <<totalImages, AllImages, Mode, countTotal, errArray, CopiedImages,
                   runCalls>>
    /\ UNCHANGED besidesWorker

\* The Batch as New returns it.
WorkerInit ==
    /\ wpc = "idle"
    /\ totalImages = 0
    /\ AllImages = <<>>
    /\ Mode = "none"
    /\ countTotal = 0
    /\ errArray = <<>>
    /\ CopiedImages = <<>>
    /\ runCalls = <<>>
    /\ saveError = "notCalled"
    /\ errorLog = <<>>
    /\ workerErr = NoWorkerErr

WorkerNext ==
    \/ \E total \in 0..MaxBatch, mode \in Modes : WorkerStart(total, mode)
    \/ \E img \in [Type : BatchTypes], runErr \in RunErrors, createOk \in BOOLEAN :
           WorkerImage(img, runErr, createOk)
    \/ \E createOk \in BOOLEAN : WorkerFinish(createOk)

\* --------------------------------------------------------- isFailSafe

\* Deepest nesting of wrapping errors handed to isFailSafe.
MaxWrap == 1
\* Most members of an aggregate error.
MaxMembers == 2

\* errcode.ErrorCode values.
ErrorCodes == {"UNAUTHORIZED", "DENIED", "MANIFEST_UNKNOWN", "TOOMANYREQUESTS"}

\* syscall.Errno values: those isErrnoRetryable names, ERESTART and one
\* it does not name.
Errnos == {"ECONNREFUSED", "EINTR", "EAGAIN", "EBUSY", "ENETDOWN", "ENETUNREACH",
           "ENETRESET", "ECONNABORTED", "ECONNRESET", "ETIMEDOUT", "EHOSTDOWN",
           "EHOSTUNREACH", "ERESTART", "EPERM"}

ContextCanceled == [type |-> "context.Canceled"]

ContextDeadlineExceeded == [type |-> "context.DeadlineExceeded"]

EOF == [type |-> "io.EOF"]

\* An error of a type the switch does not name, e.g. errors.New.
PlainError == [type |-> "other"]

OpError(e) == [type |-> "net.OpError", Err |-> e]

\* An error that has an Unwrap method and matches no earlier case, e.g. a
\* fmt.Errorf("%w") value.
WrapError(e) == [type |-> "unwrapper", Err |-> e]

\* A net.Error that matches no earlier case: what Timeout() answers,
\* whether it has an Unwrap method and what that returns.
NetError(timeout, unwrappable, e) ==
    [type |-> "net.Error", Timeout |-> timeout, Unwrappable |-> unwrappable, Err |-> e]

ErrcodeErrors(es) == [type |-> "errcode.Errors", Errors |-> es]

MultiError(es) == [type |-> "multierror.Error", Errors |-> es]

\* Errors that hold no other error.
LeafErrors ==
    {NilError, ContextCanceled, ContextDeadlineExceeded, EOF, PlainError}
    \cup {ErrcodeError(c) : c \in ErrorCodes}
    \cup {Errno(n) : n \in Errnos}
    \cup {NetError(t, FALSE, NilError) : t \in BOOLEAN}

\* Errors that hold one error of S.
Wrappers(S) ==
    {OpError(e) : e \in S} \cup {UrlError(e) : e \in S} \cup {WrapError(e) : e \in S}
    \cup {NetError(t, TRUE, e) : t \in BOOLEAN, e \in S}

\* The errors the aggregates of the model are made of: fail-safe ones and
\* others.
MemberErrors ==
    {ErrcodeError("UNAUTHORIZED"), ErrcodeError("MANIFEST_UNKNOWN"),
     Errno("ECONNREFUSED"), Errno("EPERM"), EOF}

\* Aggregates of at most MaxMembers errors of S.
Aggregates(S) ==
    LET members == UNION {[1..n -> S] : n \in 0..MaxMembers}
    IN  {ErrcodeErrors(es) : es \in members} \cup {MultiError(es) : es \in members}

RECURSIVE ErrorsUpTo(_)
ErrorsUpTo(d) ==
    IF d = 0 THEN LeafErrors
    ELSE LET S == ErrorsUpTo(d - 1)
         IN  S \cup Wrappers(S) \cup Aggregates(MemberErrors)

\* The errors isFailSafe is called with in the model.
Errors == ErrorsUpTo(MaxWrap)

\* isFailSafe is called with an error.
Classify(e) ==
    /\ cpc = "idle"
    /\ cpc' = "classified"
    /\ cErr' = e
    /\ cSafe' = isFailSafe(e)
    /\ UNCHANGED cAgain
    /\ UNCHANGED besidesClassify

\* isFailSafe is called with the same error once more.
ClassifyAgain ==
    /\ cpc = "classified"
    /\ cpc' = "again"
    /\ cAgain' = isFailSafe(cErr)
    /\ UNCHANGED <<cErr, cSafe>>
    /\ UNCHANGED besidesClassify

\* The caller goes on to another error.
ClassifyNext ==
    /\ cpc = "again"
    /\ cpc' = "idle"
    /\ cErr' = NilError
    /\ cSafe' = FALSE
    /\ cAgain' = FALSE
    /\ UNCHANGED besidesClassify

ClassifyInit ==
    /\ cpc = "idle"
    /\ cErr = NilError
    /\ cSafe = FALSE
    /\ cAgain = FALSE

NextClassify ==
    \/ \E e \in Errors : Classify(e)
    \/ ClassifyAgain
    \/ ClassifyNext

\* ------------------------------------------------------ ICSP generator

\* Largest number of entries of g.icspMapping.
MaxMappings == 2

\* reference.DockerImageReference values.
DockerImageReference(registry_, namespace, name, tag, id) ==
    [Registry |-> registry_, Namespace |-> namespace, Name |-> name,
     Tag |-> tag, ID |-> id]

\* Source references (keys of g.icspMapping).
SourceRefs ==
    {DockerImageReference(r, n, "x", "", "d") : r \in {"a", "bb"}, n \in {"", "n"}}

\* Destination references (values of g.icspMapping); ID "" is a
\* destination without digest.
DestRefs ==
    {DockerImageReference(r, n, "x", "", id) :
        r \in {"m", "mm"}, n \in {"", "n"}, id \in {"", "d"}}

\* The maps g.icspMapping ranges over.
IcspMappings ==
    UNION {[S -> DestRefs] : S \in {T \in SUBSET SourceRefs : Cardinality(T) <= MaxMappings}}

\* Values of g.icspType; Run tells typeOperator from the others.
IcspTypes == {"typeGeneric", "typeOperator"}

\* Values of icspScope: the three scopes of the switch and one it has no
\* case for.
IcspScopes == {"registry", "namespace", "repository", ""}

\* Values of icspName, cut at "/".
IcspNames == {<<"release">>, <<"operator", "x">>}

\* path.Join of two elements: empty elements are ignored.
pathJoin(a, b) ==
    IF a = "" THEN b ELSE IF b = "" THEN a ELSE a \o "/" \o b

\* ref.AsRepository().String(): registry, namespace and name, without tag
\* and digest.
AsRepositoryString(ref) ==
    pathJoin(ref.Registry, pathJoin(ref.Namespace, ref.Name))

\* ref.String(): the tag is written when there is one, the digest
\* otherwise.
RefString(ref) ==
    AsRepositoryString(ref) \o
        (IF ref.Tag # "" THEN ":" \o ref.Tag
         ELSE IF ref.ID # "" THEN "@" \o ref.ID
         ELSE "")

\* The key the switch of getRegistryMapping writes for source k, and the
\* value it writes for destination v.  No case of the switch: no key.
HasScopeCase(scope) == scope \in {"registry", "namespace", "repository"}

scopeSource(scope, k) ==
    IF scope = "registry" THEN k.Registry
    ELSE IF scope = "repository" \/ (scope = "namespace" /\ k.Namespace = "")
        THEN AsRepositoryString(k)
    ELSE pathJoin(k.Registry, k.Namespace)

scopeDest(scope, k, v) ==
    IF scope = "registry" THEN v.Registry
    ELSE IF scope = "repository" \/ (scope = "namespace" /\ k.Namespace = "")
        THEN AsRepositoryString(v)
    ELSE pathJoin(v.Registry, v.Namespace)

\* The mappings the loop of getRegistryMapping does not skip.
hasDigestAlways(v) == TRUE

hasDigest(v) == Len(v.ID) # 0

\* The source/mirror assignments getRegistryMapping makes for a mapping.
scopedPairs(scope, mapping) ==
    {<<scopeSource(scope, k), scopeDest(scope, k, mapping[k])>> :
        k \in {j \in DOMAIN mapping : hasDigest(mapping[j]) /\ HasScopeCase(scope)}}

\* getRegistryMapping: the maps it can return.  Two mappings with the same
\* scoped source assign the same key, and the later assignment stays; the
\* order of "for k, v := range mapping" is not specified.
getRegistryMapping(scope, mapping) ==
    LET pairs == scopedPairs(scope, mapping)
        keys == {p[1] : p \in pairs}
    IN  {m \in [keys -> {p[2] : p \in pairs}] :
            \A key \in keys : <<key, m[key]>> \in pairs}

\* Bytes of yaml.Marshal(icsp) that do not depend on the mirrors and the
\* name: type, object metadata, spec and status keys.
HeaderBytes == 600

\* Bytes the catalog label of an operator ICSP adds.
LabelBytes == 40

\* Bytes of one RepositoryDigestMirrors entry besides its two strings:
\* "  - source: ", "\n", "    mirrors:\n", "    - ", "\n".
EntryBytes == 33

\* Values of byteLimit.
ByteLimits == {HeaderBytes + d : d \in {0, 50, 58, 90, 140}}

RECURSIVE joinDash(_)
\* strings.Join(parts, "-").
joinDash(parts) ==
    IF Len(parts) = 0 THEN ""
    ELSE IF Len(parts) = 1 THEN parts[1]
    ELSE parts[1] \o "-" \o joinDash(Tail(parts))

\* The name of the ICSP with counter count.
icspObjectName(nameParts, count) == joinDash(nameParts) \o "-" \o ToString(count)

RECURSIVE mirrorsBytes(_)
mirrorsBytes(mirrors) ==
    IF Len(mirrors) = 0 THEN 0
    ELSE EntryBytes + Len(mirrors[1].Source) + Len(mirrors[1].Mirrors[1])
            + mirrorsBytes(Tail(mirrors))

\* len(y) for y = yaml.Marshal(icsp).
yamlLen(doc) ==
    HeaderBytes + Len(doc.Name) + (IF doc.Labels = {} THEN 0 ELSE LabelBytes)
        + mirrorsBytes(doc.RepositoryDigestMirrors)

NoICSP == [Name |-> "", Labels |-> {}, RepositoryDigestMirrors |-> <<>>]

NoIcspErr == [kind |-> "nil"]

CannotFitErrorNamesNoKey(key, limit) == [kind |-> "cannotFit", key |-> "", limit |-> limit]

\* "repository digest mirror for %q cannot fit into any ICSP with byte
\* limit %d".
CannotFitError(key, limit) == [kind |-> "cannotFit", key |-> key, limit |-> limit]

\* The ICSP the outer loop starts with counter count.
emptyICSP(nameParts, type, count) ==
    [Name |-> icspObjectName(nameParts, count),
     Labels |-> IF type = "typeOperator"
                THEN {<<"operators.openshift.org/catalog", "true">>}
                ELSE {},
     RepositoryDigestMirrors |-> <<>>]

\* One RepositoryDigestMirrors entry.
digestMirror(key, mirror) == [Source |-> key, Mirrors |-> <<mirror>>]

overLimitKeepsAll(mirrors) == mirrors

\* What the inner loop does with a document over the byte limit.
overLimitDropsLast(mirrors) == SubSeq(mirrors, 1, Len(mirrors) - 1)

\* Run is called: g.init() and getRegistryMapping.
IcspRun ==
    /\ ipc = "idle"
    /\ UNCHANGED besidesIcsp
    /\ \E mapping \in IcspMappings, type \in IcspTypes, name \in IcspNames,
          scope \in IcspScopes, limit \in ByteLimits :
        /\ icspType' = type
        /\ \E m \in getRegistryMapping(scope, mapping) :
            /\ registryMapping' = m
            /\ scoped' = m
        /\ icspMapping' = mapping
        /\ icspName' = name
        /\ icspScope' = scope
        /\ byteLimit' = limit
    /\ icsp' = NoICSP
    /\ icspCount' = 0
    /\ icsps' = <<>>
    /\ icspResult' = <<>>
    /\ icspErr' = NoIcspErr
    /\ ipc' = "outer"

\* The outer loop tests its condition and starts an ICSP.
IcspOuter ==
    /\ ipc = "outer"
    /\ DOMAIN registryMapping # {}
    /\ UNCHANGED besidesIcsp
    /\ icsp' = emptyICSP(icspName, icspType, icspCount)
    /\ ipc' = "inner"
    /\ UNCHANGED <<icspMapping, icspType, icspName, icspScope, byteLimit, registryMapping,
                   scoped, icspCount, icsps, icspResult, icspErr>>

\* One iteration of "for key := range registryMapping".
IcspInner(key) ==
    /\ ipc = "inner"
    /\ key \in DOMAIN registryMapping
    /\ UNCHANGED besidesIcsp
    /\ LET appended == Append(icsp.RepositoryDigestMirrors,
                              digestMirror(key, registryMapping[key]))
           y == yamlLen([icsp EXCEPT !.RepositoryDigestMirrors = appended])
       IN  IF y > byteLimit
           THEN IF Len(appended) = 1
                THEN /\ icspErr' = CannotFitError(key, byteLimit)
                     /\ icspResult' = <<>>
                     /\ ipc' = "returned"
                     /\ icsp' = [icsp EXCEPT !.RepositoryDigestMirrors = appended]
                     /\ UNCHANGED registryMapping
                ELSE /\ icsp' = [icsp EXCEPT !.RepositoryDigestMirrors =
                                                overLimitDropsLast(appended)]
                     /\ ipc' = "append"
                     /\ UNCHANGED <<registryMapping, icspResult, icspErr>>
           ELSE /\ icsp' = [icsp EXCEPT !.RepositoryDigestMirrors = appended]
                /\ registryMapping' =
                       [k \in DOMAIN registryMapping \ {key} |-> registryMapping[k]]
                /\ ipc' = IF DOMAIN registryMapping = {key} THEN "append" ELSE "inner"
                /\ UNCHANGED <<icspResult, icspErr>>
    /\ UNCHANGED <<icspMapping, icspType, icspName, icspScope, byteLimit, scoped,
                   icspCount, icsps>>

\* After the inner loop: the ICSP is appended and the counter moves on.
IcspAppend ==
    /\ ipc = "append"
    /\ UNCHANGED besidesIcsp
    /\ icsps' = IF Len(icsp.RepositoryDigestMirrors) # 0 THEN Append(icsps, icsp)
                ELSE icsps
    /\ icspCount' = icspCount + 1
    /\ ipc' = "outer"
    /\ UNCHANGED <<icspMapping, icspType, icspName, icspScope, byteLimit, registryMapping,
                   scoped, icsp, icspResult, icspErr>>

\* The outer loop ends: return icsps, nil.
IcspReturn ==
    /\ ipc = "outer"
    /\ DOMAIN registryMapping = {}
    /\ UNCHANGED besidesIcsp
    /\ icspResult' = icsps
    /\ ipc' = "returned"
    /\ UNCHANGED <<icspMapping, icspType, icspName, icspScope, byteLimit, registryMapping,
                   scoped, icsp, icspCount, icsps, icspErr>>

\* The caller goes on to another call.
IcspNext ==
    /\ ipc = "returned"
    /\ UNCHANGED besidesIcsp
    /\ ipc' = "idle"
    /\ icspMapping' = << >>
    /\ icspType' = "typeGeneric"
    /\ icspName' = <<>>
    /\ icspScope' = ""
    /\ byteLimit' = 0
    /\ registryMapping' = << >>
    /\ scoped' = << >>
    /\ icsp' = NoICSP
    /\ icspCount' = 0
    /\ icsps' = <<>>
    /\ icspResult' = <<>>
    /\ icspErr' = NoIcspErr

IcspInit ==
    /\ ipc = "idle"
    /\ icspMapping = << >>
    /\ icspType = "typeGeneric"
    /\ icspName = <<>>
    /\ icspScope = ""
    /\ byteLimit = 0
    /\ registryMapping = << >>
    /\ scoped = << >>
    /\ icsp = NoICSP
    /\ icspCount = 0
    /\ icsps = <<>>
    /\ icspResult = <<>>
    /\ icspErr = NoIcspErr

NextIcsp ==
    \/ IcspRun
    \/ IcspOuter
    \/ \E key \in DOMAIN registryMapping : IcspInner(key)
    \/ IcspAppend
    \/ IcspReturn
    \/ IcspNext

\* ------------------------------------------------ generateCatalogSource

\* Destination references of catalog images: with and without tag, with
\* and without digest.
CatalogDests ==
    {DockerImageReference(r, n, nm, tag, id) :
        r \in {"m", "mm"}, n \in {"", "n"}, nm \in {"x", "idx"},
        tag \in {"", "t", "v1", "latest"}, id \in {"", "sha256:ab"}}

\* Values of the argument name.
CatalogNames == {"c", "redhat-operator-index"}

preferDigest(dest) == IF dest.ID # "" THEN [dest EXCEPT !.Tag = ""] ELSE dest

\* "Prefer tag over digest": a destination with a tag loses its digest.
preferTag(dest) == IF dest.Tag # "" THEN [dest EXCEPT !.ID = ""] ELSE dest

NoCatalogSource ==
    [apiVersion |-> "", kind |-> "",
     metadata |-> [name |-> "", namespace |-> ""],
     spec |-> [sourceType |-> "", image |-> ""]]

\* The object generateCatalogSource marshals.
catalogSourceObject(name, dest) ==
    [apiVersion |-> "operators.coreos.com/v1alpha1",
     kind |-> "CatalogSource",
     metadata |-> [name |-> name, namespace |-> "openshift-marketplace"],
     spec |-> [sourceType |-> "grpc", image |-> RefString(preferTag(dest))]]

GenerateCatalogSource ==
    /\ gpc = "idle"
    /\ UNCHANGED besidesCatalog
    /\ \E name \in CatalogNames, dest \in CatalogDests :
        /\ csName' = name
        /\ csDest' = dest
        /\ catalogSource' = catalogSourceObject(name, dest)
    /\ gpc' = "returned"

\* The caller goes on to another catalog.
CatalogNext ==
    /\ gpc = "returned"
    /\ UNCHANGED besidesCatalog
    /\ gpc' = "idle"
    /\ csName' = ""
    /\ csDest' = DockerImageReference("", "", "", "", "")
    /\ catalogSource' = NoCatalogSource

CatalogInit ==
    /\ gpc = "idle"
    /\ csName = ""
    /\ csDest = DockerImageReference("", "", "", "", "")
    /\ catalogSource = NoCatalogSource

NextCatalog ==
    \/ GenerateCatalogSource
    \/ CatalogNext

\* --------------------------------------------------- MirrorUnArchiver

\* Largest number of tar entries in the chunk files under archivePath.
MaxEntries == 2

\* The constants the classification tests header.Name against ("docker/v2*
\* to cacheDir", "working-dir to workingDir").
workingDirectory == "working-dir"

cacheFilePrefix == "docker/v2"

\* Arguments workingDir and cacheDir of NewArchiveExtractor.
workingDir == "/w/working-dir"

cacheDir == "/c"

\* header.Name of the tar entries: a working-dir file, a cache file, a cache
\* file of a repository called working-dir, the imageset config, and a
\* file of another tree that has a docker/v2 directory.
EntryNames ==
    {"working-dir/a", "docker/v2/b", "docker/v2/working-dir/c", "isc.yaml",
     "x/docker/v2/d"}

\* Tar entries: regular files with their content, symbolic links and
\* directories.
TarEntries ==
    {[Name |-> n, Typeflag |-> "TypeReg", content |-> c] :
        n \in EntryNames, c \in {"c", "dd"}}
    \cup {[Name |-> n, Typeflag |-> t, content |-> ""] :
        n \in EntryNames, t \in {"TypeSymlink", "TypeDir"}}

RECURSIVE EntrySeqs(_)
\* Sequences of at most n tar entries.
EntrySeqs(n) ==
    IF n = 0 THEN {<<>>}
    ELSE LET shorter == EntrySeqs(n - 1)
         IN  shorter \cup {Append(q, e) : q \in shorter, e \in TarEntries}

\* The chunk files under archivePath: whether the first chunk file is
\* there, its entries, and the entries of the chunk files after it.
ArchiveDirs ==
    {[present |-> FALSE, first |-> <<>>, later |-> <<>>]}
    \cup {[present |-> TRUE, first |-> SubSeq(qk[1], 1, qk[2]),
            later |-> SubSeq(qk[1], qk[2] + 1, Len(qk[1]))] :
            qk \in {<<q, k>> \in EntrySeqs(MaxEntries) \X (0..MaxEntries) :
                        k <= Len(q) /\ (k = 0 => q = <<>>)}}

\* What can go wrong at one entry: reader.Next, os.MkdirAll, os.OpenFile,
\* io.Copy.
EntryFaults == {"none", "next", "mkdir", "open", "copy"}

\* strings.Contains(str, sub).
stringsContains(str, sub) ==
    \E i \in 1..(Len(str) - Len(sub) + 1) : SubSeq(str, i, i + Len(sub) - 1) = sub

\* filepath.Dir of a path without trailing separator.
filepathDir(path) ==
    LET seps == {i \in 1..Len(path) : SubSeq(path, i, i) = "/"}
        last == CHOOSE i \in seps : \A j \in seps : j <= i
    IN  IF seps = {} THEN "."
        ELSE IF last = 1 THEN "/"
        ELSE SubSeq(path, 1, last - 1)

\* filepath.Join of a directory and a clean relative path.
filepathJoin(dir, name) == dir \o "/" \o name

isRegularOrSymlink(header) == header.Typeflag \in {"TypeReg", "TypeSymlink"}

\* header.Typeflag == tar.TypeReg.
isRegular(header) == header.Typeflag = "TypeReg"

\* The descriptor Unarchive computes for a regular entry; "" when it takes
\* the else branch and continues.
descriptorOf(name) ==
    IF stringsContains(name, workingDirectory)
    THEN filepathJoin(filepathDir(workingDir), name)
    ELSE IF stringsContains(name, cacheFilePrefix)
    THEN filepathJoin(cacheDir, name)
    ELSE ""

\* The content of a file opened with O_CREATE|O_RDWR after data was copied
\* to its start: what was there beyond the data stays.
writeFile(files, path, data) ==
    LET old == IF path \in DOMAIN files THEN files[path] ELSE ""
        new == IF Len(old) > Len(data)
               THEN data \o SubSeq(old, Len(data) + 1, Len(old))
               ELSE data
    IN  [q \in DOMAIN files \cup {path} |-> IF q = path THEN new ELSE files[q]]

NoUnarchiveErr == [kind |-> "nil"]

UnarchiveError(kind, path) == [kind |-> kind, path |-> path]

\* NewArchiveExtractor opens the first chunk file.
NewArchiveExtractor ==
    /\ upc = "idle"
    /\ UNCHANGED besidesUnarchive
    /\ \E dir \in ArchiveDirs, openFails \in BOOLEAN :
        /\ archiveDir' = dir
        /\ IF ~dir.present
           THEN /\ hasNoFilesToUnpack' = TRUE
                /\ unarchiveErr' = NoUnarchiveErr
                /\ upc' = "constructed"
           ELSE IF openFails
           THEN /\ hasNoFilesToUnpack' = FALSE
                /\ unarchiveErr' = UnarchiveError("open", "chunk")
                /\ upc' = "returned"
           ELSE /\ hasNoFilesToUnpack' = FALSE
                /\ unarchiveErr' = NoUnarchiveErr
                /\ upc' = "constructed"
    /\ UNCHANGED <<readPos, fsFiles, fsDirs, extracted>>

\* Unarchive up to its loop: the two MkdirAll calls.
UnarchiveBegin ==
    /\ upc = "constructed"
    /\ UNCHANGED besidesUnarchive
    /\ IF hasNoFilesToUnpack
       THEN /\ upc' = "returned"
            /\ UNCHANGED <<fsDirs, unarchiveErr>>
       ELSE \E failing \in {"", workingDir, cacheDir} :
            IF failing = workingDir
            THEN /\ unarchiveErr' = UnarchiveError("folder", workingDir)
                 /\ upc' = "returned"
                 /\ UNCHANGED fsDirs
            ELSE IF failing = cacheDir
            THEN /\ unarchiveErr' = UnarchiveError("folder", cacheDir)
                 /\ upc' = "returned"
                 /\ fsDirs' = fsDirs \cup {workingDir}
            ELSE /\ fsDirs' = fsDirs \cup {workingDir, cacheDir}
                 /\ upc' = "reading"
                 /\ UNCHANGED unarchiveErr
    /\ UNCHANGED <<archiveDir, hasNoFilesToUnpack, readPos, fsFiles, extracted>>

\* One turn of the loop for the entry reader.Next returns.
UnarchiveEntry(fault) ==
    /\ upc = "reading"
    /\ readPos <= Len(archiveDir.first)
    /\ UNCHANGED besidesUnarchive
    /\ LET header == archiveDir.first[readPos]
           descriptor == descriptorOf(header.Name)
           descriptorParent == filepathDir(descriptor)
       IN  IF fault = "next"
           THEN /\ unarchiveErr' = UnarchiveError("reading", "chunk")
                /\ upc' = "returned"
                /\ UNCHANGED <<readPos, fsFiles, fsDirs, extracted>>
           ELSE IF ~isRegular(header) \/ descriptor = ""
           THEN /\ readPos' = readPos + 1
                /\ UNCHANGED <<upc, fsFiles, fsDirs, extracted, unarchiveErr>>
           ELSE IF fault = "mkdir"
           THEN /\ unarchiveErr' = UnarchiveError("folder", descriptorParent)
                /\ upc' = "returned"
                /\ UNCHANGED <<readPos, fsFiles, fsDirs, extracted>>
           ELSE IF fault = "open"
           THEN /\ unarchiveErr' = UnarchiveError("create", descriptor)
                /\ upc' = "returned"
                /\ fsDirs' = fsDirs \cup {descriptorParent}
                /\ UNCHANGED <<readPos, fsFiles, extracted>>
           ELSE /\ fsDirs' = fsDirs \cup {descriptorParent}
                /\ extracted' = Append(extracted, [entry |-> readPos, path |-> descriptor])
                /\ IF fault = "copy"
                   THEN /\ fsFiles' = writeFile(fsFiles, descriptor, "")
                        /\ unarchiveErr' = UnarchiveError("copying", descriptor)
                        /\ upc' = "returned"
                        /\ UNCHANGED readPos
                   ELSE /\ fsFiles' = writeFile(fsFiles, descriptor, header.content)
                        /\ readPos' = readPos + 1
                        /\ UNCHANGED <<upc, unarchiveErr>>
    /\ UNCHANGED <<archiveDir, hasNoFilesToUnpack>>

\* reader.Next returns io.EOF: the loop breaks and Unarchive returns nil.
UnarchiveEOF ==
    /\ upc = "reading"
    /\ readPos > Len(archiveDir.first)
    /\ UNCHANGED besidesUnarchive
    /\ upc' = "returned"
    /\ UNCHANGED <<archiveDir, hasNoFilesToUnpack, readPos, fsFiles, fsDirs,
                   extracted, unarchiveErr>>

\* The caller goes on to other directories.
UnarchiveNext ==
    /\ upc = "returned"
    /\ UNCHANGED besidesUnarchive
    /\ upc' = "idle"
    /\ archiveDir' = [present |-> FALSE, first |-> <<>>, later |-> <<>>]
    /\ hasNoFilesToUnpack' = FALSE
    /\ readPos' = 1
    /\ fsFiles' = << >>
    /\ fsDirs' = {}
    /\ extracted' = <<>>
    /\ unarchiveErr' = NoUnarchiveErr

UnarchiveInit ==
    /\ upc = "idle"
    /\ archiveDir = [present |-> FALSE, first |-> <<>>, later |-> <<>>]
    /\ hasNoFilesToUnpack = FALSE
    /\ readPos = 1
    /\ fsFiles = << >>
    /\ fsDirs = {}
    /\ extracted = <<>>
    /\ unarchiveErr = NoUnarchiveErr

NextUnarchive ==
    \/ NewArchiveExtractor
    \/ UnarchiveBegin
    \/ \E fault \in EntryFaults : UnarchiveEntry(fault)
    \/ UnarchiveEOF
    \/ UnarchiveNext

\* ------------------------------------------------------- GetAdditional

\* Largest number of entries of cfg.Mirror.AdditionalImages.
MaxAdditional == 2

\* Entries of cfg.Mirror.AdditionalImages: the name, whether a pull secret
\* is given and whether config.CreateContext accepts it, whether
\* imagesource.ParseReference accepts the name as source and as file://
\* destination, and what IsBlocked answers for the parsed source.
AdditionalImageValues ==
    [Name : {"img1", "img2"}, PullSecret : {"", "good", "bad"},
     Parses : {"both", "notSource", "notDestination"}, Blocked : BOOLEAN]

NoAddErr == [kind |-> "nil"]

AddError(kind, name) == [kind |-> kind, name |-> name]

bodyOfLoopNeverBlocked(img) ==
    IF img.PullSecret = "bad" THEN AddError("context", img.Name)
    ELSE IF img.Parses = "notSource" THEN AddError("parseSource", img.Name)
    ELSE IF img.Parses = "notDestination" THEN AddError("parseDestination", img.Name)
    ELSE NoAddErr

\* The error the body of the loop returns for an image; nil when it goes on
\* to append the mapping.
bodyOfLoop(img) ==
    IF img.PullSecret = "bad" THEN AddError("context", img.Name)
    ELSE IF img.Parses = "notSource" THEN AddError("parseSource", img.Name)
    ELSE IF img.Parses = "notDestination" THEN AddError("parseDestination", img.Name)
    ELSE IF img.Blocked THEN AddError("blocked", img.Name)
    ELSE NoAddErr

\* GetAdditional is called with a configuration.
GetAdditionalStart ==
    /\ apc = "idle"
    /\ UNCHANGED besidesAdditional
    /\ \E n \in 0..MaxAdditional : \E imgs \in [1..n -> AdditionalImageValues] :
          AdditionalImages' = imgs
    /\ addIdx' = 1
    /\ addMappings' = <<>>
    /\ addRunCalls' = <<>>
    /\ addErr' = NoAddErr
    /\ apc' = "loop"

\* One iteration of the loop over cfg.Mirror.AdditionalImages.
GetAdditionalImage ==
    /\ apc = "loop"
    /\ addIdx <= Len(AdditionalImages)
    /\ UNCHANGED besidesAdditional
    /\ LET img == AdditionalImages[addIdx]
           e == bodyOfLoop(img)
       IN  IF e # NoAddErr
           THEN /\ addErr' = e
                /\ apc' = "returned"
                /\ UNCHANGED <<addIdx, addMappings>>
           ELSE /\ addMappings' = Append(addMappings, img.Name)
                /\ addIdx' = addIdx + 1
                /\ UNCHANGED <<apc, addErr>>
    /\ UNCHANGED <<AdditionalImages, addRunCalls>>

\* After the loop: opts.Run and image.AssociateImageLayers.
GetAdditionalRun(runOk, assocOk) ==
    /\ apc = "loop"
    /\ addIdx > Len(AdditionalImages)
    /\ UNCHANGED besidesAdditional
    /\ addRunCalls' = Append(addRunCalls, addMappings)
    /\ addErr' = IF ~runOk THEN AddError("run", "")
                 ELSE IF ~assocOk THEN AddError("associate", "")
                 ELSE NoAddErr
    /\ apc' = "returned"
    /\ UNCHANGED <<AdditionalImages, addIdx, addMappings>>

AdditionalInit ==
    /\ apc = "idle"
    /\ AdditionalImages = <<>>
    /\ addIdx = 1
    /\ addMappings = <<>>
    /\ addRunCalls = <<>>
    /\ addErr = NoAddErr

NextAdditional ==
    \/ GetAdditionalStart
    \/ GetAdditionalImage
    \/ \E runOk, assocOk \in BOOLEAN : GetAdditionalRun(runOk, assocOk)

\* ------------------------------------------------------ mirrorMappings

\* Largest number of entries of the argument mappings.
MaxCatalogMappings == 2

\* Entries of mappings: the source string (the map key), whether
\* imagesource.ParseReference accepts source and destination, and the
\* blocked predicates that answer true for the parsed source.
CatalogMappingValues ==
    [from : 1..MaxCatalogMappings, Parses : {"both", "notSource", "notDestination"},
     blockedBy : SUBSET {1, 2}]

\* The values of the argument mappings: one entry per source string.
CatalogMappingSets ==
    UNION {{{[from |-> f, Parses |-> g[f][1], blockedBy |-> g[f][2]] : f \in F} :
            g \in [F -> {"both", "notSource", "notDestination"} \X SUBSET {1, 2}]} :
           F \in SUBSET (1..MaxCatalogMappings)}

blockedByNone(m, funcs) == FALSE

\* The inner loop over isBlockedFuncs.
blockedByAny(m, funcs) == m.blockedBy \cap funcs # {}

\* mirrorMappings is called.
MirrorMappingsStart ==
    /\ mpc = "idle"
    /\ UNCHANGED besidesMirrorMappings
    /\ \E S \in CatalogMappingSets, n \in 0..2 :
        /\ mmInput' = S
        /\ mmRemaining' = S
        /\ mmFuncs' = 1..n
    /\ mmappings' = {}
    /\ mpc' = "loop"
    /\ UNCHANGED <<mmHanded, mmErr>>

\* One iteration of "for fromStr, toStr := range mappings".
MirrorMappingsLoop(m) ==
    /\ mpc = "loop"
    /\ m \in mmRemaining
    /\ UNCHANGED besidesMirrorMappings
    /\ IF m.Parses # "both"
       THEN /\ mmErr' = [kind |-> "parse", from |-> m.from]
            /\ mpc' = "returned"
            /\ UNCHANGED <<mmRemaining, mmappings>>
       ELSE /\ mmappings' = IF blockedByAny(m, mmFuncs) THEN mmappings
                            ELSE mmappings \cup {m}
            /\ mmRemaining' = mmRemaining \ {m}
            /\ UNCHANGED <<mpc, mmErr>>
    /\ UNCHANGED <<mmInput, mmFuncs, mmHanded>>

\* After the loop: a.Validate and a.Run; their errors are printed and nil is
\* returned.
MirrorMappingsRun(validateOk, runOk) ==
    /\ mpc = "loop"
    /\ mmRemaining = {}
    /\ UNCHANGED besidesMirrorMappings
    /\ mmHanded' = IF validateOk THEN Append(mmHanded, mmappings) ELSE mmHanded
    /\ mpc' = "returned"
    /\ UNCHANGED <<mmInput, mmFuncs, mmRemaining, mmappings, mmErr>>

MirrorMappingsInit ==
    /\ mpc = "idle"
    /\ mmInput = {}
    /\ mmFuncs = {}
    /\ mmRemaining = {}
    /\ mmappings = {}
    /\ mmHanded = <<>>
    /\ mmErr = [kind |-> "nil"]

NextMirrorMappings ==
    \/ MirrorMappingsStart
    \/ \E m \in mmRemaining : MirrorMappingsLoop(m)
    \/ \E validateOk, runOk \in BOOLEAN : MirrorMappingsRun(validateOk, runOk)

\* ------------------------------------------------------ pinImages

\* Largest number of images (bundle images and related images) of the
\* declarative config.
MaxPinImages == 3

\* Image references: carrying a digest, carrying a tag the resolver finds,
\* carrying a tag the resolver does not find, carrying neither.
PinImageValues == {"digest", "tag", "badtag", "none"}

\* Bundles with k images: the bundle image and k - 1 related images.
BundlesOfSize(k) ==
    {[Image |-> img, RelatedImages |-> ris] :
        img \in PinImageValues, ris \in [1..(k - 1) -> PinImageValues]}

RECURSIVE BundlesWithImages(_)
\* The values of dc.Bundles with n images in all.
BundlesWithImages(n) ==
    IF n = 0 THEN {<<>>}
    ELSE UNION {{<<b>> \o rest : b \in BundlesOfSize(k), rest \in BundlesWithImages(n - k)} :
                k \in 1..n}

PinDCs == UNION {BundlesWithImages(n) : n \in 0..MaxPinImages}

IsImagePinned(img) == img = "digest"

IsImageTagged(img) == img \in {"tag", "badtag"}

\* What image.ResolveToPin can return: the digest form and no error, or an
\* error together with a string that is the empty string or the argument.
ResolveToPin(img) ==
    IF img = "tag" THEN {[image |-> "digest", ok |-> TRUE]}
    ELSE {[image |-> "", ok |-> FALSE], [image |-> img, ok |-> FALSE]}

NoPinErr == [kind |-> "nil"]

PinError(i, j) == [kind |-> "resolve", bundle |-> i, related |-> j]

errsUnchanged(es, r, i, j) == es

\* errs = append(errs, err) when the resolution failed.
errsAfter(es, r, i, j) == IF r.ok THEN es ELSE Append(es, PinError(i, j))

\* utilerrors.NewAggregate: nil for an empty list.
PinAggregate(es) == IF es = <<>> THEN NoPinErr ELSE [kind |-> "aggregate", errs |-> es]

\* pinImages is called and creates the resolver.
PinImagesStart(resolverOk) ==
    /\ ppc = "idle"
    /\ UNCHANGED besidesPin
    /\ \E bundles \in PinDCs :
        /\ pinInput' = bundles
        /\ pinBundles' = bundles
    /\ pinI' = 1
    /\ pinJ' = 0
    /\ pinSeen' = {}
    /\ pinWarned' = {}
    /\ pinErrs' = <<>>
    /\ IF resolverOk
       THEN ppc' = "bundle" /\ pinErr' = NoPinErr
       ELSE ppc' = "returned" /\ pinErr' = [kind |-> "resolver"]

\* One pass of the outer loop up to the inner loop: the bundle image.
PinBundleImage ==
    /\ ppc = "bundle"
    /\ pinI <= Len(pinBundles)
    /\ UNCHANGED besidesPin
    /\ UNCHANGED <<pinInput, pinErr>>
    /\ pinSeen' = pinSeen \cup {<<pinI, 0>>}
    /\ LET img == pinBundles[pinI].Image IN
        IF IsImagePinned(img)
        THEN /\ ppc' = "related"
             /\ pinJ' = 1
             /\ UNCHANGED <<pinBundles, pinI, pinWarned, pinErrs>>
        ELSE IF ~IsImageTagged(img)
        THEN /\ pinWarned' = pinWarned \cup {<<pinI, 0>>}
             /\ pinI' = pinI + 1
             /\ UNCHANGED <<ppc, pinBundles, pinJ, pinErrs>>
        ELSE \E r \in ResolveToPin(img) :
             /\ pinBundles' = [pinBundles EXCEPT ![pinI].Image = r.image]
             /\ pinErrs' = errsAfter(pinErrs, r, pinI, 0)
             /\ UNCHANGED pinWarned
             /\ IF r.ok
                THEN ppc' = "related" /\ pinJ' = 1 /\ UNCHANGED pinI
                ELSE pinI' = pinI + 1 /\ UNCHANGED <<ppc, pinJ>>

\* One pass of the inner loop: a related image.
PinRelatedImage ==
    /\ ppc = "related"
    /\ pinJ <= Len(pinBundles[pinI].RelatedImages)
    /\ UNCHANGED besidesPin
    /\ UNCHANGED <<ppc, pinInput, pinI, pinErr>>
    /\ pinSeen' = pinSeen \cup {<<pinI, pinJ>>}
    /\ pinJ' = pinJ + 1
    /\ LET img == pinBundles[pinI].RelatedImages[pinJ] IN
        IF IsImagePinned(img)
        THEN UNCHANGED <<pinBundles, pinWarned, pinErrs>>
        ELSE IF ~IsImageTagged(img)
        THEN /\ pinWarned' = pinWarned \cup {<<pinI, pinJ>>}
             /\ UNCHANGED <<pinBundles, pinErrs>>
        ELSE \E r \in ResolveToPin(img) :
             /\ pinBundles' = [pinBundles EXCEPT ![pinI].RelatedImages[pinJ] = r.image]
             /\ pinErrs' = errsAfter(pinErrs, r, pinI, pinJ)
             /\ UNCHANGED pinWarned

\* The inner loop ends.
PinRelatedDone ==
    /\ ppc = "related"
    /\ pinJ > Len(pinBundles[pinI].RelatedImages)
    /\ UNCHANGED besidesPin
    /\ ppc' = "bundle"
    /\ pinI' = pinI + 1
    /\ UNCHANGED <<pinInput, pinBundles, pinJ, pinSeen, pinWarned, pinErrs, pinErr>>

\* The outer loop ends and pinImages returns the aggregate.
PinImagesReturn ==
    /\ ppc = "bundle"
    /\ pinI > Len(pinBundles)
    /\ UNCHANGED besidesPin
    /\ ppc' = "returned"
    /\ pinErr' = PinAggregate(pinErrs)
    /\ UNCHANGED <<pinInput, pinBundles, pinI, pinJ, pinSeen, pinWarned, pinErrs>>

PinInit ==
    /\ ppc = "idle"
    /\ pinInput = <<>>
    /\ pinBundles = <<>>
    /\ pinI = 0
    /\ pinJ = 0
    /\ pinSeen = {}
    /\ pinWarned = {}
    /\ pinErrs = <<>>
    /\ pinErr = NoPinErr

NextPin ==
    \/ \E resolverOk \in BOOLEAN : PinImagesStart(resolverOk)
    \/ PinBundleImage
    \/ PinRelatedImage
    \/ PinRelatedDone
    \/ PinImagesReturn

\* ------------------------------------------------------ rebuildCatalogs: an existing catalog image

\* Largest number of records of one declarative config.
MaxRecords == 2

CatalogPackages == {"p", "q"}

ChannelHeads == {"v1", "v2"}

\* A channel record of a declarative config: its key (the package the
\* channel belongs to) and its head bundle.
ChannelRecords == [package : CatalogPackages, head : ChannelHeads]

\* Declarative configs: no two records of one config share a key.
DeclarativeConfigs ==
    UNION {{dc \in [1..n -> ChannelRecords] :
                \A i, j \in 1..n : dc[i].package = dc[j].package => i = j} :
           n \in 0..MaxRecords}

RenderRefsNewFirst(old, new) == <<new, old>>

\* Refs: []string{refExact, dcDir}: the old catalog before the new one.
RenderRefs(old, new) == <<old, new>>

\* action.Render.Run: the records of the refs, in the order of the refs.
Render(refs) == refs[1] \o refs[2]

\* operator.TwoWayStrategy.Merge: of the records sharing a key the last
\* one stays.
TwoWayMerge(dc) ==
    LET kept == {i \in DOMAIN dc : \A j \in DOMAIN dc : dc[j].package = dc[i].package => j <= i}
        RECURSIVE pick(_)
        pick(i) == IF i > Len(dc) THEN <<>>
                   ELSE (IF i \in kept THEN <<dc[i]>> ELSE <<>>) \o pick(i + 1)
    IN  pick(1)

NoRenderErr == [kind |-> "nil"]

\* resolver.Resolve found the catalog image; action.Render runs.
RenderExisting(renderOk) ==
    /\ rnpc = "idle"
    /\ UNCHANGED besidesRender
    /\ \E old \in DeclarativeConfigs, new \in DeclarativeConfigs :
        /\ rnOld' = old
        /\ rnNew' = new
        /\ rnDC' = IF renderOk THEN Render(RenderRefs(old, new)) ELSE <<>>
    /\ rnWritten' = <<>>
    /\ IF renderOk
       THEN rnpc' = "rendered" /\ rnErr' = NoRenderErr
       ELSE rnpc' = "returned" /\ rnErr' = [kind |-> "render"]

\* merger.Merge(dc), os.MkdirAll, os.Create and declcfg.WriteJSON.
MergeAndWrite(fault) ==
    /\ rnpc = "rendered"
    /\ UNCHANGED besidesRender
    /\ UNCHANGED <<rnOld, rnNew>>
    /\ rnDC' = IF fault = "merge" THEN rnDC ELSE TwoWayMerge(rnDC)
    /\ rnWritten' = IF fault = "none" THEN TwoWayMerge(rnDC) ELSE <<>>
    /\ rnErr' = IF fault = "none" THEN NoRenderErr ELSE [kind |-> fault]
    /\ rnpc' = IF fault = "none" THEN "written" ELSE "returned"

RenderInit ==
    /\ rnpc = "idle"
    /\ rnOld = <<>>
    /\ rnNew = <<>>
    /\ rnDC = <<>>
    /\ rnWritten = <<>>
    /\ rnErr = NoRenderErr

NextRender ==
    \/ \E renderOk \in BOOLEAN : RenderExisting(renderOk)
    \/ \E fault \in {"none", "merge", "mkdir", "create", "write"} : MergeAndWrite(fault)

\* ------------------------------------------------------ rebuildCatalogs: the loop

\* Largest number of catalogs (index.json files) found in the archive.
MaxRebuilds == 2

\* What happens when one catalog is rebuilt: the image is found in the
\* mirror and rebuilt, is not found and built from the new config, or one
\* of the steps fails; and whether the pushed image resolves afterwards.
RebuildOutcomes ==
    [step : {"found", "notFound", "parseName", "permission", "resolve", "render", "merge",
             "write", "layer", "build"},
     digestOk : BOOLEAN]

RebuildInputs == UNION {[1..n -> RebuildOutcomes] : n \in 0..MaxRebuilds}

NoRebuildErr == [kind |-> "nil"]

RebuildError(kind, c) == [kind |-> kind, catalog |-> c]

neverFailed(step) == FALSE

\* The error checks of one pass of the loop.
stepFailed(step) == step \notin {"found", "notFound"}

\* What the failing return statement hands back beside the error: refs
\* for a layer that cannot be created, nil otherwise.
refsOnFailure(step, refs) ==
    IF step = "layer" THEN [isNil |-> FALSE, catalogs |-> refs, digests |-> {}]
    ELSE [isNil |-> TRUE, catalogs |-> {}, digests |-> {}]

\* rebuildCatalogs is called: it parses o.ToMirror, walks dstDir, creates
\* the resolver and the registry.
RebuildStart(setup) ==
    /\ rbpc = "idle"
    /\ UNCHANGED besidesRebuild
    /\ \E in \in RebuildInputs : rbInput' = in
    /\ rbPushed' = {}
    /\ IF setup = "ok"
       THEN /\ rbpc' = "loop"
            /\ rbRemaining' = DOMAIN rbInput'
            /\ rbRefs' = [isNil |-> FALSE, catalogs |-> DOMAIN rbInput', digests |-> {}]
            /\ rbErr' = NoRebuildErr
       ELSE /\ rbpc' = "returned"
            /\ rbRemaining' = {}
            /\ rbRefs' = [isNil |-> TRUE, catalogs |-> {}, digests |-> {}]
            /\ rbErr' = RebuildError(setup, 0)

\* One pass of the loop over catalogsByImage.
RebuildCatalog(c) ==
    /\ rbpc = "loop"
    /\ c \in rbRemaining
    /\ UNCHANGED besidesRebuild
    /\ UNCHANGED rbInput
    /\ rbRemaining' = rbRemaining \ {c}
    /\ IF stepFailed(rbInput[c].step)
       THEN /\ rbpc' = "returned"
            /\ rbErr' = RebuildError(rbInput[c].step, c)
            /\ rbRefs' = refsOnFailure(rbInput[c].step, rbRefs.catalogs)
            /\ UNCHANGED rbPushed
       ELSE /\ rbPushed' = rbPushed \cup {c}
            /\ UNCHANGED <<rbpc, rbRefs, rbErr>>

\* The loop over refs that resolves the digest of every pushed image.
RebuildResolveDigests ==
    /\ rbpc = "loop"
    /\ rbRemaining = {}
    /\ UNCHANGED besidesRebuild
    /\ UNCHANGED <<rbInput, rbRemaining, rbPushed>>
    /\ rbpc' = "returned"
    /\ LET unresolved == {c \in DOMAIN rbInput : ~rbInput[c].digestOk} IN
        IF unresolved = {}
        THEN /\ rbRefs' = [rbRefs EXCEPT !.digests = DOMAIN rbInput]
             /\ rbErr' = NoRebuildErr
        ELSE \E c \in unresolved :
             /\ rbRefs' = [isNil |-> TRUE, catalogs |-> {}, digests |-> {}]
             /\ rbErr' = RebuildError("digest", c)

RebuildInit ==
    /\ rbpc = "idle"
    /\ rbInput = <<>>
    /\ rbRemaining = {}
    /\ rbPushed = {}
    /\ rbRefs = [isNil |-> TRUE, catalogs |-> {}, digests |-> {}]
    /\ rbErr = NoRebuildErr

NextRebuild ==
    \/ \E setup \in {"ok", "parse", "walk", "resolver", "registry"} : RebuildStart(setup)
    \/ \E c \in 1..MaxRebuilds : RebuildCatalog(c)
    \/ RebuildResolveDigests

\* ------------------------------------------------------ Publish: temporary directories and layers

LayerDigests == {"sha256:a", "sha256:b"}

\* Where a layer digest is when Publish starts.
BlobPlaces == {"archive", "metadata", "neither"}

\* assoc.LayerDigests of every image name, one association per image.
ImageLayerSets == UNION {[1..n -> SUBSET LayerDigests] : n \in 0..MaxImages}

NoUnpackErr == [kind |-> "nil"]

UnpackError(kind) == [kind |-> kind]

recordedEverywhere(place) == TRUE

\* findBlobRepo: image.GetImageFromBlob finds the digest in the published
\* metadata.
inPreviousMetadata(place) == place = "metadata"

\* if !o.SkipCleanup { cleanup() }: os.RemoveAll of the directory.
cleanupUnlessSkipped(skip, dirs, dir) == IF skip THEN dirs ELSE dirs \ {dir}

\* Publish is called: createResultsDir, mktempDir for the workspace, then
\* the steps up to the loop of processMirroredImages.
UnpackPublishStart(skip, setup) ==
    /\ xpc = "idle"
    /\ UNCHANGED besidesUnpack
    /\ SkipCleanup' = skip
    /\ \E places \in [LayerDigests -> BlobPlaces], layers \in ImageLayerSets :
        /\ blobIn' = places
        /\ imageLayers' = layers
    /\ blobFiles' = {}
    /\ xErrs' = {}
    /\ xRecorded' = FALSE
    /\ xIdx' = 1
    /\ madeDirs' = IF setup = "mktempErr" THEN {} ELSE {<<"workspace", 0>>}
    /\ CASE setup = "ok" ->
                /\ xpc' = "images"
                /\ tmpDirs' = {<<"workspace", 0>>}
                /\ xErr' = NoUnpackErr
         [] setup = "mktempErr" ->
                /\ xpc' = "returned"
                /\ tmpDirs' = {}
                /\ xErr' = UnpackError("mktemp")
         [] OTHER ->
                /\ xpc' = "returned"
                /\ tmpDirs' = cleanupUnlessSkipped(skip, {<<"workspace", 0>>}, <<"workspace", 0>>)
                /\ xErr' = UnpackError(setup)

\* One pass of the loop over assocs.Keys() in processMirroredImages. The
\* two early returns also end Publish, which runs its deferred cleanup.
UnpackImage(mktempOk, manifestOk, fetchOk, publishOk) ==
    /\ xpc = "images"
    /\ xIdx <= Len(imageLayers)
    /\ UNCHANGED besidesUnpack
    /\ UNCHANGED <<SkipCleanup, blobIn, imageLayers, xRecorded>>
    /\ LET unpackDir == <<"unpack", xIdx>>
           workspace == <<"workspace", 0>>
           unpacked == {d \in imageLayers[xIdx] : blobIn[d] = "archive"}
           missingLayers == imageLayers[xIdx] \ unpacked
           notFound == {d \in missingLayers : ~inPreviousMetadata(blobIn[d])}
           fetched == IF fetchOk THEN missingLayers ELSE {}
           fetchErrs == {<<"findBlobRepo", xIdx, d>> : d \in notFound}
                        \cup {<<"fetchBlob", xIdx, d>> : d \in missingLayers \ fetched}
       IN
        IF ~mktempOk
        THEN /\ xpc' = "returned"
             /\ xErr' = UnpackError("mktemp")
             /\ tmpDirs' = cleanupUnlessSkipped(SkipCleanup, tmpDirs, workspace)
             /\ UNCHANGED <<xIdx, madeDirs, blobFiles, xErrs>>
        ELSE IF ~manifestOk
        THEN /\ xErrs' = xErrs \cup {<<"unpack", xIdx, "manifest">>}
             /\ xIdx' = xIdx + 1
             /\ madeDirs' = madeDirs \cup {unpackDir}
             /\ tmpDirs' = cleanupUnlessSkipped(SkipCleanup, tmpDirs \cup {unpackDir}, unpackDir)
             /\ UNCHANGED <<xpc, blobFiles, xErr>>
        ELSE IF fetchErrs # {}
        THEN /\ xpc' = "returned"
             /\ xErr' = UnpackError("fetchBlobs")
             /\ xErrs' = xErrs
             /\ madeDirs' = madeDirs \cup {unpackDir}
             /\ blobFiles' = blobFiles \cup {<<xIdx, d, "unpacked">> : d \in unpacked}
                                       \cup {<<xIdx, d, "fetched">> : d \in fetched}
             /\ tmpDirs' = cleanupUnlessSkipped(SkipCleanup, tmpDirs \cup {unpackDir}, workspace)
             /\ UNCHANGED xIdx
        ELSE /\ blobFiles' = blobFiles \cup {<<xIdx, d, "unpacked">> : d \in unpacked}
                                       \cup {<<xIdx, d, "fetched">> : d \in fetched}
             /\ xErrs' = IF publishOk THEN xErrs ELSE xErrs \cup {<<"publishImage", xIdx, "">>}
             /\ xIdx' = xIdx + 1
             /\ madeDirs' = madeDirs \cup {unpackDir}
             /\ tmpDirs' = cleanupUnlessSkipped(SkipCleanup, tmpDirs \cup {unpackDir}, unpackDir)
             /\ UNCHANGED <<xpc, xErr>>

\* processMirroredImages returns utilerrors.NewAggregate(errs); on nil
\* Publish goes on to pruneRegistry, unpackReleaseSignatures,
\* processCustomImages and backend.WriteMetadata.
UnpackPublishFinish(tail) ==
    /\ xpc = "images"
    /\ xIdx > Len(imageLayers)
    /\ UNCHANGED besidesUnpack
    /\ UNCHANGED <<SkipCleanup, blobIn, imageLayers, xIdx, madeDirs, blobFiles, xErrs>>
    /\ xpc' = "returned"
    /\ tmpDirs' = cleanupUnlessSkipped(SkipCleanup, tmpDirs, <<"workspace", 0>>)
    /\ IF xErrs # {}
       THEN xErr' = UnpackError("aggregate") /\ xRecorded' = FALSE
       ELSE /\ xErr' = IF tail = "ok" THEN NoUnpackErr ELSE UnpackError(tail)
            /\ xRecorded' = (tail = "ok")

UnpackInit ==
    /\ xpc = "idle"
    /\ SkipCleanup = FALSE
    /\ blobIn = [d \in LayerDigests |-> "archive"]
    /\ imageLayers = <<>>
    /\ xIdx = 0
    /\ tmpDirs = {}
    /\ madeDirs = {}
    /\ blobFiles = {}
    /\ xErrs = {}
    /\ xErr = NoUnpackErr
    /\ xRecorded = FALSE

NextUnpack ==
    \/ \E skip \in BOOLEAN,
          setup \in {"ok", "mktempErr", "readImageSet", "handleMetadata", "destination"} :
           UnpackPublishStart(skip, setup)
    \/ \E mktempOk, manifestOk, fetchOk, publishOk \in BOOLEAN :
           UnpackImage(mktempOk, manifestOk, fetchOk, publishOk)
    \/ \E tail \in {"ok", "pruneRegistry", "signatures", "customImages", "writeMetadata"} :
           UnpackPublishFinish(tail)

\* ------------------------------------------------------ findBlobRepo

\* Largest sequence number of the past mirrors whose associations the
\* published metadata holds.
MaxPastMirrors == 2

\* o.ToMirror
ToMirror == "registry.com"

\* The images of the published metadata, as references.
BlobImages ==
    {[Registry |-> "quay.io", Namespace |-> ns, Name |-> "baz"] : ns \in {"", "test1", "test2"}}

\* The image name of a reference.
Exact(ref) == pathJoin(ref.Registry, pathJoin(ref.Namespace, ref.Name))

ImageNames == {Exact(ref) : ref \in BlobImages}

\* imagesource.ParseReference of an image name.
ParseReference(name) == CHOOSE ref \in BlobImages : Exact(ref) = name

BlobDigests == {"found", "notfound"}

\* An entry of the association set: the layer digests and the sequence
\* number of the past mirror that recorded the association.
BlobAssociations == [LayerDigests : SUBSET BlobDigests, Sequence : 1..MaxPastMirrors]

\* The association sets, keyed by image name.
BlobAssociationSets ==
    UNION {[names -> BlobAssociations] : names \in SUBSET ImageNames}

\* image.GetImageFromBlob: the name of an image whose associations hold the
\* digest, "" when there is none. The association set is a map.
GetImageFromBlob(assocs, dgst) ==
    LET holders == {name \in DOMAIN assocs : dgst \in assocs[name].LayerDigests}
    IN  IF holders = {} THEN {""} ELSE holders

NoBlobErr == [kind |-> "nil", layer |-> ""]

\* fmt.Errorf("layer %q is not present in previous metadata", layerDigest)
NotPresentError(dgst) == [kind |-> "is not present in previous metadata", layer |-> dgst]

ZeroReference == [Registry |-> "", Namespace |-> "", Name |-> ""]

keepReference(o, ref) == ref

\* dstRef.Ref.Registry = o.ToMirror and
\* dstRef.Ref.Namespace = path.Join(o.UserNamespace, dstRef.Ref.Namespace)
rewriteToMirror(o, ref) ==
    [ref EXCEPT !.Registry = o.ToMirror,
                !.Namespace = pathJoin(o.UserNamespace, ref.Namespace)]

\* findBlobRepo is called and returns.
FindBlobRepo ==
    /\ fpc = "idle"
    /\ UNCHANGED besidesBlobRepo
    /\ fpc' = "returned"
    /\ \E assocs \in BlobAssociationSets, dgst \in BlobDigests, ns \in {"", "foo"} :
        /\ blobAssocs' = assocs
        /\ layerDigest' = dgst
        /\ UserNamespace' = ns
        /\ \E srcRef \in GetImageFromBlob(assocs, dgst) :
            IF srcRef = ""
            THEN /\ blobRef' = ZeroReference
                 /\ blobErr' = NotPresentError(dgst)
            ELSE /\ blobRef' = rewriteToMirror([ToMirror |-> ToMirror, UserNamespace |-> ns],
                                               ParseReference(srcRef))
                 /\ blobErr' = NoBlobErr

BlobRepoInit ==
    /\ fpc = "idle"
    /\ blobAssocs = <<>>
    /\ layerDigest = ""
    /\ UserNamespace = ""
    /\ blobRef = ZeroReference
    /\ blobErr = NoBlobErr

NextBlobRepo == FindBlobRepo

\* ------------------------------------------------------ digestOfFilter

\* Largest number of packages of an include filter.
MaxPackages == 2

\* The include filter of an operator entry: its package names.
IncludeFilters == UNION {[1..n -> {"p", "q"}] : n \in 0..MaxPackages}

\* v2alpha1.Operator: the catalog, the include filter, and the three fields
\* that only name the target.
Operators ==
    [Catalog : {"c1", "c2"}, Packages : IncludeFilters, TargetCatalog : {"", "t"},
     TargetTag : {"", "v1"}, TargetCatalogSourceTemplate : {"", "tpl"}]

RECURSIVE packagesJSON(_)
packagesJSON(pkgs) ==
    IF pkgs = <<>> THEN ""
    ELSE "{\"name\":\"" \o Head(pkgs) \o "\"}"
         \o (IF Len(pkgs) > 1 THEN "," ELSE "") \o packagesJSON(Tail(pkgs))

optionalJSON(key, value) ==
    IF value = "" THEN "" ELSE ",\"" \o key \o "\":\"" \o value \o "\""

\* json.Marshal of an operator entry: empty target fields are omitted.
Marshal(c) ==
    "{\"packages\":"
    \o (IF c.Packages = <<>> THEN "null" ELSE "[" \o packagesJSON(c.Packages) \o "]")
    \o ",\"catalog\":\"" \o c.Catalog \o "\""
    \o optionalJSON("targetCatalog", c.TargetCatalog)
    \o optionalJSON("targetTag", c.TargetTag)
    \o optionalJSON("targetCatalogSourceTemplate", c.TargetCatalogSourceTemplate)
    \o "}"

\* fmt.Sprintf("%x", md5.Sum(pkgs))[0:32]: the 32 hexadecimal digits of
\* the MD5 sum, taken as different for different bytes.
md5Hex(bytes) == <<"md5", bytes>>

keepsTargetFields(c) == c

\* c := catalog and the three assignments to c.
withoutTargetFields(c) ==
    [c EXCEPT !.TargetCatalog = "", !.TargetTag = "", !.TargetCatalogSourceTemplate = ""]

\* digestOfFilter(catalog): the argument is passed by value.
digestOfFilter(catalog) == md5Hex(Marshal(withoutTargetFields(catalog)))

\* OperatorImageCollector calls digestOfFilter(op) for an operator entry.
DigestOfFilterCall ==
    /\ dpc < 2
    /\ UNCHANGED besidesDigest
    /\ dpc' = dpc + 1
    /\ \E op \in Operators :
        /\ dfGiven' = Append(dfGiven, op)
        /\ dfOps' = Append(dfOps, op)
        /\ dfDigests' = Append(dfDigests, digestOfFilter(op))

DigestInit ==
    /\ dpc = 0
    /\ dfGiven = <<>>
    /\ dfOps = <<>>
    /\ dfDigests = <<>>

NextDigest == DigestOfFilterCall

\* ------------------------------------------------------ ConvertToDiffIncludeConfig

\* Largest number of filters (packages and channels together) of an include
\* configuration.
MaxFilters == 3

\* IncludeBundle: the settings a configuration file may hold together, as
\* the cases of TestConvertToDiffIncludeConfig have them.
IncludeBundles ==
    {[MinVersion |-> "0.1.0", MaxVersion |-> "0.2.0", MinBundle |-> ""],
     [MinVersion |-> "0.1.0", MaxVersion |-> "", MinBundle |-> ""],
     [MinVersion |-> "", MaxVersion |-> "0.2.0", MinBundle |-> ""],
     [MinVersion |-> "", MaxVersion |-> "", MinBundle |-> "bundle-0.1.0"],
     [MinVersion |-> "", MaxVersion |-> "", MinBundle |-> ""]}

\* IncludeChannel: a name and the embedded IncludeBundle.
IncludeChannels == {[Name |-> "stable", IncludeBundle |-> b] : b \in IncludeBundles}

\* The channel lists of n channels.
RECURSIVE ChannelLists(_)
ChannelLists(n) ==
    IF n = 0 THEN {<<>>}
    ELSE {<<c>> \o rest : c \in IncludeChannels, rest \in ChannelLists(n - 1)}

\* IncludePackage with k channels; the name may be missing.
IncludePackages(k) ==
    {[Name |-> n, Channels |-> chs, IncludeBundle |-> b] :
        n \in {"", "bar"}, chs \in ChannelLists(k), b \in IncludeBundles}

\* IncludeConfig.Packages of m filters in all.
RECURSIVE IncludeConfigsOfSize(_)
IncludeConfigsOfSize(m) ==
    IF m = 0 THEN {<<>>}
    ELSE UNION {{<<p>> \o rest : p \in IncludePackages(k),
                                 rest \in IncludeConfigsOfSize(m - 1 - k)} :
                k \in 0..(m - 1)}

\* IncludeConfig.Packages of at most n filters in all.
IncludeConfigs(n) == UNION {IncludeConfigsOfSize(m) : m \in 0..n}

digitOf(c) == CASE c = "0" -> 0 [] c = "1" -> 1 [] c = "2" -> 2

\* semver.MustParse of a version of three one-digit numbers.
semverParse(v) ==
    [Major |-> digitOf(SubSeq(v, 1, 1)), Minor |-> digitOf(SubSeq(v, 3, 3)),
     Patch |-> digitOf(SubSeq(v, 5, 5))]

\* The filter of a DiffIncludePackage or DiffIncludeChannel with nothing set.
NoDiffFilter == [Range |-> "", Versions |-> <<>>, Bundles |-> <<>>]

minVersionFirst(b) ==
    IF b.MinVersion # ""
    THEN [NoDiffFilter EXCEPT !.Versions = <<semverParse(b.MinVersion)>>]
    ELSE IF b.MaxVersion # ""
    THEN [NoDiffFilter EXCEPT !.Range = "<=" \o b.MaxVersion]
    ELSE IF b.MinBundle # ""
    THEN [NoDiffFilter EXCEPT !.Bundles = <<b.MinBundle>>]
    ELSE NoDiffFilter

\* What an IncludeBundle becomes: a range for both versions or the largest
\* alone, one version for the smallest alone, one bundle for minBundle.
diffFilterOf(b) ==
    IF b.MinVersion # "" /\ b.MaxVersion # ""
    THEN [NoDiffFilter EXCEPT !.Range = ">=" \o b.MinVersion \o " <=" \o b.MaxVersion]
    ELSE IF b.MinVersion # ""
    THEN [NoDiffFilter EXCEPT !.Versions = <<semverParse(b.MinVersion)>>]
    ELSE IF b.MaxVersion # ""
    THEN [NoDiffFilter EXCEPT !.Range = "<=" \o b.MaxVersion]
    ELSE IF b.MinBundle # ""
    THEN [NoDiffFilter EXCEPT !.Bundles = <<b.MinBundle>>]
    ELSE NoDiffFilter

\* action.DiffIncludeChannel of a channel.
diffChannelOf(ch) == [Name |-> ch.Name, Filter |-> diffFilterOf(ch.IncludeBundle)]

\* action.DiffIncludePackage of a package.
diffPackageOf(pkg) ==
    [Name |-> pkg.Name,
     Channels |-> [c \in 1..Len(pkg.Channels) |-> diffChannelOf(pkg.Channels[c])],
     Filter |-> diffFilterOf(pkg.IncludeBundle)]

NoConvertErr == [kind |-> "nil"]

\* fmt.Errorf("package %d requires a name", pkgIdx), pkgIdx counted from 0.
RequiresNameError(i) ==
    [kind |-> "error", msg |-> "package " \o ToString(i - 1) \o " requires a name"]

\* The indexes of the packages without a name.
Nameless(pkgs) == {i \in 1..Len(pkgs) : pkgs[i].Name = ""}

FirstNameless(pkgs) == CHOOSE i \in Nameless(pkgs) : \A j \in Nameless(pkgs) : i <= j

\* ic.ConvertToDiffIncludeConfig(): the packages in order, stopping at the
\* first one without a name. What the configuration returned with the error
\* holds is either nothing or the packages converted before it.
ConvertToDiffIncludeConfig ==
    /\ vpc = "idle"
    /\ UNCHANGED besidesConvert
    /\ vpc' = "returned"
    /\ \E ic \in IncludeConfigs(MaxFilters) :
        /\ includeCfg' = ic
        /\ IF Nameless(ic) = {}
           THEN /\ diffCfg' = [i \in 1..Len(ic) |-> diffPackageOf(ic[i])]
                /\ convErr' = NoConvertErr
           ELSE /\ \E kept \in {0, FirstNameless(ic) - 1} :
                    diffCfg' = [i \in 1..kept |-> diffPackageOf(ic[i])]
                /\ convErr' = RequiresNameError(FirstNameless(ic))

ConvertInit ==
    /\ vpc = "idle"
    /\ includeCfg = <<>>
    /\ diffCfg = <<>>
    /\ convErr = NoConvertErr

NextConvert == ConvertToDiffIncludeConfig

\* ------------------------------------------------------ Validate

\* Largest number of release channels of a configuration.
MaxChannels == 3
\* Largest number of operator catalogs of a configuration.
MaxOperators == 2

\* cfg.Mirror.OCP.Channels: the names of the release channels.
ReleaseChannels == UNION {[1..n -> {"channel1", "channel2"}] : n \in 0..MaxChannels}

\* cfg.Mirror.Operators: whether the include configuration holds packages
\* and what IsHeadsOnly() answers.
OperatorOptions ==
    UNION {[1..n -> [Packages : BOOLEAN, HeadsOnly : BOOLEAN]] : n \in 0..MaxOperators}

\* validateOperatorOptions
HeadsOnlyWithPackages ==
    "invalid configuration option: catalog cannot define packages with headsOnly set to true"

validateOperatorOptions(operators) ==
    IF \E i \in 1..Len(operators) : operators[i].Packages /\ operators[i].HeadsOnly
    THEN <<HeadsOnlyWithPackages>>
    ELSE <<>>

DuplicateChannel(name) ==
    "invalid configuration option: duplicate release channel " \o name
    \o " found in configuration"

seenUnchanged(seen, name) == seen

\* seen[channel.Name] = true
seenWith(seen, name) == seen \cup {name}

\* validateReleaseChannels: the loop from channel i on, seen holding the
\* names of the channels before it.
RECURSIVE releaseChannelsFrom(_, _, _)
releaseChannelsFrom(chs, i, seen) ==
    IF i > Len(chs) THEN <<>>
    ELSE IF chs[i] \in seen THEN <<DuplicateChannel(chs[i])>>
    ELSE releaseChannelsFrom(chs, i + 1, seenWith(seen, chs[i]))

validateReleaseChannels(chs) == releaseChannelsFrom(chs, 1, {})

\* utilerrors.NewAggregate(errs): nil for no errors.
NoValidateErr == [kind |-> "nil"]

ValidateAggregate(es) ==
    IF es = <<>> THEN NoValidateErr ELSE [kind |-> "aggregate", errs |-> es]

\* Validate(cfg): every check of validationChecks runs, in order.
Validate ==
    /\ vapc = "idle"
    /\ UNCHANGED besidesValidate
    /\ vapc' = "returned"
    /\ \E operators \in OperatorOptions, chs \in ReleaseChannels :
        /\ validated' = [Operators |-> operators, Channels |-> chs]
        /\ validateErr' =
               ValidateAggregate(validateOperatorOptions(operators) \o validateReleaseChannels(chs))

ValidateInit ==
    /\ vapc = "idle"
    /\ validated = [Operators |-> <<>>, Channels |-> <<>>]
    /\ validateErr = NoValidateErr

NextValidate == Validate

\* ------------------------------------------------------ mirror: the catalog prefix of destinations

\* Largest number of mappings opts.Run() writes besides the catalog's.
MaxRunMappings == 2

\* ctlgRef.Ref.RepositoryName()
CatalogRepos == {"ns/cat", "cat"}

\* dstRef.Ref.RepositoryName() of the destinations of the mapping file:
\* under the catalog's repository, beside it, and the catalog's own.
DstRepos ==
    {"ns/cat/foo/bar", "ns/cat/bar", "ns/catalog/bar",
     "cat/foo/bar", "other/foo/bar", "ns/cat"}

\* The mapping file without the catalog image: source -> destination.
RunMappingSets == UNION {[S -> DstRepos] : S \in SUBSET (1..MaxRunMappings)}

\* strings.HasPrefix(s, prefix)
stringsHasPrefix(s, prefix) ==
    Len(s) >= Len(prefix) /\ SubSeq(s, 1, Len(prefix)) = prefix

\* strings.TrimPrefix(s, prefix): s itself when it does not start with prefix.
stringsTrimPrefix(s, prefix) ==
    IF stringsHasPrefix(s, prefix) THEN SubSeq(s, Len(prefix) + 1, Len(s)) ELSE s

\* strings.IndexRune(s, '/') from position i on, counted from 1; 0 for none.
RECURSIVE slashFrom(_, _)
slashFrom(s, i) ==
    IF i > Len(s) THEN 0
    ELSE IF SubSeq(s, i, i) = "/" THEN i
    ELSE slashFrom(s, i + 1)

\* imgreference.Parse(newRepoName) of a repository path without registry,
\* tag or digest: the namespace is what stands before the first slash; an
\* empty path does not parse.
imgreferenceParse(repo) ==
    IF repo = "" THEN [ok |-> FALSE, Namespace |-> "", Name |-> ""]
    ELSE IF slashFrom(repo, 1) = 0 THEN [ok |-> TRUE, Namespace |-> "", Name |-> repo]
    ELSE [ok |-> TRUE,
          Namespace |-> SubSeq(repo, 1, slashFrom(repo, 1) - 1),
          Name |-> SubSeq(repo, slashFrom(repo, 1) + 1, Len(repo))]

\* The two strings.TrimPrefix calls of the loop body.
newRepoName(dstRepo, catalogRepo) ==
    stringsTrimPrefix(stringsTrimPrefix(dstRepo, catalogRepo), "/")

\* DockerImageReference.RepositoryName() of the rewritten dstRef.
strippedRepo(dstRepo, catalogRepo) ==
    pathJoin(imgreferenceParse(newRepoName(dstRepo, catalogRepo)).Namespace,
             imgreferenceParse(newRepoName(dstRepo, catalogRepo)).Name)

NoStripErr == [kind |-> "nil"]

\* The error of imgreference.Parse.
ParseError(repo) == [kind |-> "parse", repo |-> repo]

\* The error of mirrorMappings.
MirrorMappingsError == [kind |-> "mirrorMappings"]

\* MirrorOptions.mirror from the mapping file on: the loop over the
\* mappings and the call of mirrorMappings. The first destination that does
\* not parse ends the call without mappings; range over a map visits the
\* mappings in any order.
StripCatalogPrefix(mirrorOk) ==
    /\ spc = "idle"
    /\ UNCHANGED besidesStrip
    /\ spc' = "returned"
    /\ \E c \in CatalogRepos, ms \in RunMappingSets :
        /\ ctlgRepo' = c
        /\ readMappings' = ms
        /\ LET bad == {s \in DOMAIN ms : ~imgreferenceParse(newRepoName(ms[s], c)).ok}
           IN IF bad # {}
              THEN /\ outMappings' = << >>
                   /\ \E s \in bad : stripErr' = ParseError(newRepoName(ms[s], c))
              ELSE /\ outMappings' = [s \in DOMAIN ms |-> strippedRepo(ms[s], c)]
                   /\ stripErr' = IF mirrorOk THEN NoStripErr ELSE MirrorMappingsError

StripInit ==
    /\ spc = "idle"
    /\ ctlgRepo = "cat"
    /\ readMappings = << >>
    /\ outMappings = << >>
    /\ stripErr = NoStripErr

NextStrip == \E mirrorOk \in BOOLEAN : StripCatalogPrefix(mirrorOk)

\* ------------------------------------------------------ rebuildCatalogs: the image a catalog is built on

\* ctlgRef.Ref of the catalogs of the archive, Registry set to the mirror's.
BuildCatalogRefs ==
    {[Registry |-> ToMirror, Namespace |-> ns, Name |-> "index", Tag |-> "v1"] :
        ns \in {"", "redhat", "community"}}

\* DockerImageReference.Exact() of a reference with a tag or an ID.
ExactTagged(ref) ==
    pathJoin(ref.Registry, pathJoin(ref.Namespace, ref.Name))
    \o (IF ref.Tag # "" THEN ":" \o ref.Tag ELSE "")
    \o (IF ref.ID # "" THEN "@" \o ref.ID ELSE "")

\* reference.Parse(OPMImage)
OPMImage ==
    [Registry |-> "quay.io", Namespace |-> "operator-framework", Name |-> "opm", Tag |-> "",
     ID |-> "sha256:038007c1c5d5f0efa50961cbcc097c6e63655a2ab4126547e3c4eb620ad0346e"]

\* opmImage with the registry of the mirror and the user namespace.
opmImageInMirror(userNamespace) ==
    [OPMImage EXCEPT !.Registry = ToMirror,
                     !.Namespace = pathJoin(userNamespace, OPMImage.Namespace)]

\* dcDir of a catalog: the directory of its index.json under dstDir.
dcDirOf(ref) == pathJoin("catalogs", pathJoin(ref.Namespace, ref.Name))

\* deleteLayer(old)
deleteLayer(old) == [op |-> "delete", file |-> old, target |-> ""]

\* addLayer(new, targetPath)
addLayer(new, targetPath) == [op |-> "add", file |-> new, target |-> targetPath]

NoBuildErr == [kind |-> "nil"]

BuildError(kind) == [kind |-> kind]

anyResolveError(rerr) == rerr # "nil"

\* errors.Is(rerr, errdefs.ErrNotFound)
isErrNotFound(rerr) == rerr = "notFound"

\* A pass of the loop begins: the name is parsed and push permission is
\* checked before anything is resolved.
BuildCatalogStart(check) ==
    /\ bpc = "idle"
    /\ UNCHANGED besidesBuild
    /\ UNCHANGED <<bResolve, bRenderRefs, bSrcImage, bLayers, bBuildCall, bPushed>>
    /\ \E ref \in BuildCatalogRefs, ns \in {"", "foo"} :
        /\ bCatalog' = [ref EXCEPT !.Namespace = pathJoin(ns, ref.Namespace)] @@ [ID |-> ""]
        /\ bUserNamespace' = ns
    /\ IF check = "ok"
       THEN bpc' = "checked" /\ bErr' = NoBuildErr
       ELSE bpc' = "returned" /\ bErr' = BuildError(check)

\* resolver.Resolve(ctx, refExact) and the choice between the three branches.
BuildResolve(rerr) ==
    /\ bpc = "checked"
    /\ UNCHANGED besidesBuild
    /\ UNCHANGED <<bCatalog, bUserNamespace, bRenderRefs, bSrcImage, bLayers, bBuildCall,
                   bPushed>>
    /\ bResolve' = rerr
    /\ IF rerr = "nil" THEN bpc' = "found" /\ bErr' = NoBuildErr
       ELSE IF isErrNotFound(rerr) THEN bpc' = "notFound" /\ bErr' = NoBuildErr
       ELSE bpc' = "returned" /\ bErr' = BuildError("resolving existing catalog image")

\* The branch of an image found: render the image and the new catalog,
\* merge, write rendered/index.json, make the two layers.
BuildRendered(fault) ==
    /\ bpc = "found"
    /\ UNCHANGED besidesBuild
    /\ UNCHANGED <<bCatalog, bUserNamespace, bResolve, bBuildCall, bPushed>>
    /\ bRenderRefs' = <<ExactTagged(bCatalog), dcDirOf(bCatalog)>>
    /\ IF fault = "none"
       THEN /\ bLayers' =
                   <<deleteLayer("/configs/.wh.index.json"),
                     addLayer(pathJoin(pathJoin(dcDirOf(bCatalog), "rendered"), "index.json"),
                              "/configs")>>
            /\ bSrcImage' = ExactTagged(bCatalog)
            /\ bpc' = "layers"
            /\ bErr' = NoBuildErr
       ELSE /\ UNCHANGED <<bLayers, bSrcImage>>
            /\ bpc' = "returned"
            /\ bErr' = BuildError(fault)

\* The branch of an image not found: one layer with the new catalog, on the
\* opm image of the mirror.
BuildFromNew(fault) ==
    /\ bpc = "notFound"
    /\ UNCHANGED besidesBuild
    /\ UNCHANGED <<bCatalog, bUserNamespace, bResolve, bRenderRefs, bBuildCall, bPushed>>
    /\ IF fault = "none"
       THEN /\ bLayers' = <<addLayer(pathJoin(dcDirOf(bCatalog), "index.json"), "/configs")>>
            /\ bSrcImage' = ExactTagged(opmImageInMirror(bUserNamespace))
            /\ bpc' = "layers"
            /\ bErr' = NoBuildErr
       ELSE /\ UNCHANGED <<bLayers, bSrcImage>>
            /\ bpc' = "returned"
            /\ bErr' = BuildError(fault)

\* o.buildCatalogLayer(ctx, srcImage, ctlgRef.Ref.Exact(), dstDir, layers...)
BuildCatalogLayer(pushed) ==
    /\ bpc = "layers"
    /\ UNCHANGED besidesBuild
    /\ UNCHANGED <<bCatalog, bUserNamespace, bResolve, bRenderRefs, bSrcImage, bLayers>>
    /\ bBuildCall' = <<[srcRef |-> bSrcImage, targetRef |-> ExactTagged(bCatalog),
                        layers |-> bLayers]>>
    /\ bPushed' = pushed
    /\ bpc' = "returned"
    /\ bErr' = IF pushed THEN NoBuildErr ELSE BuildError("buildCatalogLayer")

BuildInit ==
    /\ bpc = "idle"
    /\ bCatalog = [Registry |-> ToMirror, Namespace |-> "", Name |-> "index", Tag |-> "v1",
                   ID |-> ""]
    /\ bUserNamespace = ""
    /\ bResolve = "none"
    /\ bRenderRefs = <<>>
    /\ bSrcImage = ""
    /\ bLayers = <<>>
    /\ bBuildCall = <<>>
    /\ bPushed = FALSE
    /\ bErr = NoBuildErr

NextBuild ==
    \/ \E check \in {"ok", "parseName", "permission"} : BuildCatalogStart(check)
    \/ \E rerr \in {"nil", "notFound", "other"} : BuildResolve(rerr)
    \/ \E fault \in {"none", "render", "merge", "mkdir", "create", "write", "deleteLayer",
                     "addLayer"} : BuildRendered(fault)
    \/ \E fault \in {"none", "addLayer"} : BuildFromNew(fault)
    \/ \E pushed \in BOOLEAN : BuildCatalogLayer(pushed)

\* ------------------------------------------------------ AdditionalImagesCollector

\* Largest number of additional images a configuration declares.
MaxDeclared == 2
\* Largest number of runs followed.
MaxCollectorRuns == 3

\* img.Name of additional images: two tags of one repository, a second
\* repository, and a name of two parts only.
AdditionalImageNames == {"quay.io/ns/a:v1", "quay.io/ns/a:v2", "quay.io/ns/b:v1", "ns/a:v1"}

\* The configurations: lists of different image names.
DeclaredImages ==
    {d \in UNION {[1..n -> AdditionalImageNames] : n \in 1..MaxDeclared} :
        \A i, j \in 1..Len(d) : i # j => d[i] # d[j]}

\* The position of the first c in s from position i on; 0 for none.
RECURSIVE indexFrom(_, _, _)
indexFrom(s, c, i) ==
    IF i > Len(s) THEN 0
    ELSE IF SubSeq(s, i, i) = c THEN i
    ELSE indexFrom(s, c, i + 1)

\* strings.Split(s, sep)[0] for a separator that starts with c.
beforeFirst(s, c) == IF indexFrom(s, c, 1) = 0 THEN s ELSE SubSeq(s, 1, indexFrom(s, c, 1) - 1)

\* customImageParser: the image name split at "/"; fewer than three parts
\* are an error; the component is parts[2] up to "@", and up to ":" when
\* it holds one.
customImageParser(image) ==
    LET s1 == indexFrom(image, "/", 1)
        s2 == IF s1 = 0 THEN 0 ELSE indexFrom(image, "/", s1 + 1)
        s3 == IF s2 = 0 THEN 0 ELSE indexFrom(image, "/", s2 + 1)
        part2 == SubSeq(image, s2 + 1, IF s3 = 0 THEN Len(image) ELSE s3 - 1)
    IN  IF s2 = 0
        THEN [ok |-> FALSE, Repository |-> "", Namespace |-> "", Component |-> ""]
        ELSE [ok |-> TRUE,
              Repository |-> SubSeq(image, 1, s1 - 1),
              Namespace |-> SubSeq(image, s1 + 1, s2 - 1),
              Component |-> IF indexFrom(part2, ":", 1) # 0 THEN beforeFirst(part2, ":")
                            ELSE beforeFirst(part2, "@")]

\* o.Opts.Global.Dir and o.Opts.Destination of a mirror-to-disk run.
GlobalDir == "working-dir"
CollectorDestination == "file://out"

\* cacheDir of an image that parses.
cacheDirOf(image) ==
    GlobalDir \o "/additional-images/" \o customImageParser(image).Namespace
    \o "/" \o customImageParser(image).Component

\* The CopyImageSchema appended for an image.
copyImageSchema(image) ==
    [Source |-> "docker://" \o image,
     Destination |-> beforeFirst(CollectorDestination, ":") \o ":" \o cacheDirOf(image)]

NoCollectorErr == [kind |-> "nil"]

\* fmt.Errorf(errMsg, err) for a name that does not parse.
CollectorParseError(image) == [kind |-> "customImageParser", image |-> image]

dirsUnchanged(dirs, image) == dirs

\* os.MkdirAll(cacheDir, 0755) without an error.
dirsWith(dirs, image) == dirs \cup {cacheDirOf(image)}

\* The loop of the mirror-to-disk branch from image i on: dirs are the
\* directories that exist, all is allImages, failAt is the image at which
\* os.MkdirAll fails (0 for none).
RECURSIVE collectFrom(_, _, _, _, _)
collectFrom(declared, i, dirs, all, failAt) ==
    IF i > Len(declared) THEN [dirs |-> dirs, allImages |-> all, err |-> NoCollectorErr]
    ELSE IF ~customImageParser(declared[i]).ok
    THEN [dirs |-> dirs, allImages |-> <<>>, err |-> CollectorParseError(declared[i])]
    ELSE IF cacheDirOf(declared[i]) \in dirs
    THEN collectFrom(declared, i + 1, dirs, all, failAt)
    ELSE IF failAt = i
    THEN [dirs |-> dirs, allImages |-> <<>>, err |-> NoCollectorErr]
    ELSE collectFrom(declared, i + 1, dirsWith(dirs, declared[i]),
                     Append(all, copyImageSchema(declared[i])), failAt)

\* The configuration of the runs is read.
CollectorConfigure ==
    /\ kpc = "unconfigured"
    /\ UNCHANGED besidesCollector
    /\ UNCHANGED <<kRuns, kCacheDirs, kCopied, kAllImages, kErr>>
    /\ kpc' = "idle"
    /\ \E d \in DeclaredImages : kDeclared' = d

\* AdditionalImagesCollector of a mirror-to-disk run.
AdditionalImagesCollector(failAt) ==
    /\ kpc = "idle"
    /\ kRuns < MaxCollectorRuns
    /\ failAt <= Len(kDeclared)
    /\ UNCHANGED besidesCollector
    /\ UNCHANGED <<kRuns, kDeclared, kCopied>>
    /\ kpc' = "collected"
    /\ LET res == collectFrom(kDeclared, 1, kCacheDirs, <<>>, failAt) IN
        /\ kCacheDirs' = res.dirs
        /\ kAllImages' = res.allImages
        /\ kErr' = res.err

\* The run copies the images collected; each copy completes or fails, and
\* the run ends.
CollectorCopy ==
    /\ kpc = "collected"
    /\ kErr = NoCollectorErr
    /\ UNCHANGED besidesCollector
    /\ UNCHANGED <<kDeclared, kCacheDirs, kAllImages, kErr>>
    /\ kpc' = "idle"
    /\ kRuns' = kRuns + 1
    /\ \E done \in SUBSET (1..Len(kAllImages)) :
        kCopied' = kCopied \cup
                   {img \in AdditionalImageNames :
                       \E i \in done : kAllImages[i].Source = "docker://" \o img}

\* The run ends after the collection without copying: the collector or a
\* later collector returned an error, or the process was interrupted.
CollectorRunEnds ==
    /\ kpc = "collected"
    /\ UNCHANGED besidesCollector
    /\ UNCHANGED <<kDeclared, kCacheDirs, kCopied, kAllImages, kErr>>
    /\ kpc' = "idle"
    /\ kRuns' = kRuns + 1

CollectorInit ==
    /\ kpc = "unconfigured"
    /\ kRuns = 0
    /\ kDeclared = <<>>
    /\ kCacheDirs = {}
    /\ kCopied = {}
    /\ kAllImages = <<>>
    /\ kErr = NoCollectorErr

NextCollector ==
    \/ CollectorConfigure
    \/ \E failAt \in 0..MaxDeclared : AdditionalImagesCollector(failAt)
    \/ CollectorCopy
    \/ CollectorRunEnds

\* ------------------------------------------------------ OperatorImageCollector

\* Largest number of operator catalogs declared.
MaxCatalogs == 2

\* op.Catalog of the catalogs that can be declared.
OperatorCatalogs == {"registry.io/ns/cat1:v1", "registry.io/ns/cat2:v1"}

\* Operator entries: the catalog and the target catalog.
OperatorEntries == [Catalog : OperatorCatalogs, TargetCatalog : {"", "t"}]

OperatorLists == UNION {[1..n -> OperatorEntries] : n \in 1..MaxCatalogs}

\* What the related-images lookup of the manifest interface or the catalog
\* handler returns for a catalog: bundle name -> related images. A bundle
\* of one name is in both catalogs.
RelatedImagesFromCatalog(catalog) ==
    IF catalog = "registry.io/ns/cat1:v1"
    THEN [b \in {"op1.v1", "common.v1"} |->
             {[Image |-> "registry.io/ns/" \o b \o "@sha256:1", Type |-> "operatorRelatedImage"]}]
    ELSE [b \in {"op2.v1", "common.v1"} |->
             {[Image |-> "registry.io/ns/" \o b \o "@sha256:2", Type |-> "operatorRelatedImage"]}]

\* The digest of a catalog image.
catalogDigestOf(catalog) ==
    IF catalog = "registry.io/ns/cat1:v1" THEN "sha256:c1" ELSE "sha256:c2"

\* The map entry the collectors write for the catalog image itself; the
\* FilterCollector records the target catalog in it.
catalogRelatedImage(collector, op) ==
    [Image |-> op.Catalog, Type |-> "operatorCatalog",
     TargetCatalog |-> IF collector = "LocalStorageCollector" THEN "" ELSE op.TargetCatalog]

\* The key of that entry: "index" in the LocalStorageCollector,
\* imgSpec.ComponentName() + "." + catalogDigest in the FilterCollector.
catalogKey(collector, op) ==
    IF collector = "LocalStorageCollector" THEN "index"
    ELSE op.Catalog \o "." \o catalogDigestOf(op.Catalog)

\* maps.Copy(dst, src): the keys of src take the values of src.
mapsCopy(dst, src) ==
    [k \in DOMAIN dst \cup DOMAIN src |-> IF k \in DOMAIN src THEN src[k] ELSE dst[k]]

\* What relatedImages is after the lookup for one catalog: the
\* LocalStorageCollector assigns the result to relatedImages, the
\* FilterCollector copies it into relatedImages.
relatedAfter(collector, related, ri) ==
    IF collector = "LocalStorageCollector" THEN ri ELSE mapsCopy(related, ri)

NoCollectErr == [kind |-> "nil"]

\* The related images of the map, as prepareM2DCopyBatch and
\* prepareD2MCopyBatch range over them.
imagesOf(related) == UNION {related[k] : k \in DOMAIN related}

\* OperatorImageCollector is called.
OperatorCollectorStart ==
    /\ opc = "idle"
    /\ UNCHANGED besidesOpCollector
    /\ UNCHANGED <<oAllImages, oErr, oSkipped>>
    /\ opc' = "loop"
    /\ \E c \in {"LocalStorageCollector", "FilterCollector"}, declared \in OperatorLists :
        /\ oCollector' = c
        /\ oOperators' = declared
    /\ oIdx' = 1
    /\ oRelated' = << >>

\* One pass of the loop over the operator entries. outcome: the steps of
\* the pass succeed, one of them returns an error, or (FilterCollector,
\* mirror-to-disk and mirror-to-mirror) the digest of the catalog cannot be
\* read and the entry is skipped.
OperatorCollectorCatalog(outcome) ==
    /\ opc = "loop"
    /\ oIdx <= Len(oOperators)
    /\ outcome = "skip" => oCollector = "FilterCollector"
    /\ UNCHANGED besidesOpCollector
    /\ UNCHANGED <<oCollector, oOperators, oAllImages>>
    /\ CASE outcome = "error" ->
              /\ opc' = "returned"
              /\ oErr' = [kind |-> "error", catalog |-> oIdx]
              /\ UNCHANGED <<oIdx, oRelated, oSkipped>>
         [] outcome = "skip" ->
              /\ oIdx' = oIdx + 1
              /\ oSkipped' = oSkipped \cup {oIdx}
              /\ UNCHANGED <<opc, oRelated, oErr>>
         [] OTHER ->
              /\ oIdx' = oIdx + 1
              /\ oRelated' =
                     mapsCopy(relatedAfter(oCollector, oRelated,
                                           RelatedImagesFromCatalog(oOperators[oIdx].Catalog)),
                              [k \in {catalogKey(oCollector, oOperators[oIdx])} |->
                                  {catalogRelatedImage(oCollector, oOperators[oIdx])}])
              /\ UNCHANGED <<opc, oErr, oSkipped>>

\* After the loop: the copy batch is prepared from relatedImages.
OperatorCollectorReturn(prepareOk) ==
    /\ opc = "loop"
    /\ oIdx > Len(oOperators)
    /\ UNCHANGED besidesOpCollector
    /\ UNCHANGED <<oCollector, oOperators, oIdx, oRelated, oSkipped>>
    /\ opc' = "returned"
    /\ IF prepareOk
       THEN oAllImages' = imagesOf(oRelated) /\ oErr' = NoCollectErr
       ELSE oAllImages' = {} /\ oErr' = [kind |-> "error", catalog |-> 0]

OpCollectorInit ==
    /\ opc = "idle"
    /\ oCollector = "FilterCollector"
    /\ oOperators = <<>>
    /\ oIdx = 1
    /\ oSkipped = {}
    /\ oRelated = << >>
    /\ oAllImages = {}
    /\ oErr = NoCollectErr

NextOpCollector ==
    \/ OperatorCollectorStart
    \/ \E outcome \in {"ok", "error", "skip"} : OperatorCollectorCatalog(outcome)
    \/ \E prepareOk \in BOOLEAN : OperatorCollectorReturn(prepareOk)

\* ------------------------------------------------------ ReconcileBlobs

\* Largest number of image directories under v2.
MaxBlobDirs == 2
\* Largest number of runs followed.
MaxReconciles == 2

\* info.Name() of the blobs an image directory can hold, in walk order.
BlobFileNames == <<"sha256:a", "sha256:b">>

\* The regular files filepath.Walk("v2") can visit, in its lexical order:
\* position p is blob (p - 1) % Len(BlobFileNames) + 1 of image directory
\* (p - 1) \div Len(BlobFileNames) + 1.
WalkPositions == 1..(MaxBlobDirs * Len(BlobFileNames))

\* info.Name() of the file at a walk position.
infoName(p) == BlobFileNames[((p - 1) % Len(BlobFileNames)) + 1]

\* fpath of the file at a walk position.
fpathOf(p) ==
    "v2/img" \o ToString(((p - 1) \div Len(BlobFileNames)) + 1) \o "/blobs/" \o infoName(p)

\* The names of a list of blobs.
NamesOf(blobs) == {blobs[i] : i \in 1..Len(blobs)}

NoReconcileErr == [kind |-> "nil"]

\* foundFiles[fpath] = struct{}{}
foundWith(found, p) == found \cup {fpathOf(p)}

\* The walk from position p on. files: the files under v2; past:
\* meta.PastBlobs; found: the keys of foundFiles; moved: the positions
\* renamed so far; failAt: the position whose os.Rename fails (0: none).
RECURSIVE walkFrom(_, _, _, _, _, _)
walkFrom(p, files, past, found, moved, failAt) ==
    IF p \notin WalkPositions
    THEN [past |-> past, moved |-> moved, err |-> NoReconcileErr]
    ELSE IF p \notin files \/ infoName(p) \in found
    THEN walkFrom(p + 1, files, past, found, moved, failAt)
    ELSE IF failAt = p
    THEN [past |-> Append(past, infoName(p)), moved |-> moved,
          err |-> [kind |-> "rename", path |-> fpathOf(p)]]
    ELSE walkFrom(p + 1, files, Append(past, infoName(p)), foundWith(found, p),
                  moved \cup {p}, failAt)

\* A run pulls images: blobs are written under v2.
PullBlobs ==
    /\ qpc = "idle"
    /\ qRuns < MaxReconciles
    /\ UNCHANGED besidesReconcile
    /\ UNCHANGED <<qRuns, PastBlobs, blobsDir, qPastBefore, qMoved, qErr>>
    /\ qpc' = "pulled"
    /\ \E new \in SUBSET WalkPositions : new # {} /\ v2Files' = v2Files \cup new

\* ReconcileBlobs(meta, sourceDir)
ReconcileBlobs(failAt) ==
    /\ qpc = "pulled"
    /\ failAt \in v2Files \cup {0}
    /\ UNCHANGED besidesReconcile
    /\ qpc' = "reconciled"
    /\ qRuns' = qRuns + 1
    /\ qPastBefore' = PastBlobs
    /\ LET res == walkFrom(1, v2Files, PastBlobs, NamesOf(PastBlobs) \cup {"."}, {}, failAt)
       IN  /\ PastBlobs' = res.past
           /\ qMoved' = res.moved
           /\ qErr' = res.err
           /\ v2Files' = v2Files \ res.moved
           /\ blobsDir' = blobsDir \cup {infoName(p) : p \in res.moved}

\* The run is over; the next one works on the same directory and metadata.
ReconcileNextRun ==
    /\ qpc = "reconciled"
    /\ qErr = NoReconcileErr
    /\ UNCHANGED besidesReconcile
    /\ UNCHANGED <<qRuns, v2Files, PastBlobs, blobsDir, qPastBefore, qMoved, qErr>>
    /\ qpc' = "idle"

ReconcileInit ==
    /\ qpc = "idle"
    /\ qRuns = 0
    /\ v2Files = {}
    /\ PastBlobs = <<>>
    /\ blobsDir = {}
    /\ qPastBefore = <<>>
    /\ qMoved = {}
    /\ qErr = NoReconcileErr

NextReconcile ==
    \/ PullBlobs
    \/ \E failAt \in WalkPositions \cup {0} : ReconcileBlobs(failAt)
    \/ ReconcileNextRun

\* ------------------------------------------------------ specifications

vars ==
    <<publishVars, workerVars, classifyVars, icspVars, catalogVars, unarchiveVars, additionalVars, mirrorMappingsVars, pinVars, renderVars, rebuildVars, unpackVars, blobRepoVars, digestVars, convertVars, validateVars, stripVars, buildVars, collectorVars, opCollectorVars, reconcileVars>>

Init == PublishInit /\ WorkerInit /\ ClassifyInit /\ IcspInit /\ CatalogInit
        /\ UnarchiveInit
        /\ AdditionalInit
        /\ MirrorMappingsInit
        /\ PinInit
        /\ RenderInit
        /\ RebuildInit
        /\ UnpackInit
        /\ BlobRepoInit
        /\ DigestInit
        /\ ConvertInit
        /\ ValidateInit
        /\ StripInit
        /\ BuildInit
        /\ CollectorInit
        /\ OpCollectorInit
        /\ ReconcileInit

Next == PublishNext

Spec == Init /\ [][Next]_vars

NextWorker == WorkerNext

SpecWorker == Init /\ [][NextWorker]_vars

SpecClassify == Init /\ [][NextClassify]_vars

SpecIcsp == Init /\ [][NextIcsp]_vars

SpecCatalog == Init /\ [][NextCatalog]_vars

SpecUnarchive == Init /\ [][NextUnarchive]_vars

SpecAdditional == Init /\ [][NextAdditional]_vars

SpecMirrorMappings == Init /\ [][NextMirrorMappings]_vars

SpecPin == Init /\ [][NextPin]_vars

SpecRender == Init /\ [][NextRender]_vars

SpecRebuild == Init /\ [][NextRebuild]_vars

SpecUnpack == Init /\ [][NextUnpack]_vars

SpecBlobRepo == Init /\ [][NextBlobRepo]_vars

SpecDigest == Init /\ [][NextDigest]_vars

SpecConvert == Init /\ [][NextConvert]_vars

SpecValidate == Init /\ [][NextValidate]_vars

SpecStrip == Init /\ [][NextStrip]_vars

SpecBuild == Init /\ [][NextBuild]_vars

SpecCollector == Init /\ [][NextCollector]_vars

SpecOpCollector == Init /\ [][NextOpCollector]_vars

SpecReconcile == Init /\ [][NextReconcile]_vars

\* ------------------------------------------------------------- claims

\* The metadata image of the incoming workspace as it was in the registry
\* when this run of Publish started.
StoredBefore ==
    IF incoming.uid \in Uuids THEN regBefore[newMetadataImage(incoming.uid)] ELSE NoImage

\* The sequence number the registry's state asks of the next imageset.
NextSeq(image) == IF image.exists THEN image.meta.seq + 1 ELSE 1

\* handleMetadata has returned in this run.
Handled == stepRes.handleMetadata # "none"

\* C1 (as amended): when backend.ReadMetadata returns the stored metadata of
\* the incoming workspace and SkipMetadataCheck is not set, handleMetadata
\* accepts the imageset exactly when its sequence is the stored sequence
\* plus one, and otherwise fails with SequenceError(stored+1, incoming).
C1_SequenceCheckedUnlessSkipped ==
    (Handled /\ readRes = "nil" /\ ~SkipMetadataCheck) =>
        /\ StoredBefore.exists
        /\ stepRes.handleMetadata = "ok" <=> incoming.seq = StoredBefore.meta.seq + 1
        /\ stepRes.handleMetadata = "err" =>
               err = SequenceError(StoredBefore.meta.seq + 1, incoming.seq)

\* C1 as stated: whenever backend.ReadMetadata returns the stored metadata,
\* the imageset is accepted only with sequence stored+1 and every other
\* sequence fails with SequenceError(stored+1, incoming).
C1_SequenceAlwaysChecked ==
    (Handled /\ readRes = "nil") =>
        /\ stepRes.handleMetadata = "ok" <=> incoming.seq = StoredBefore.meta.seq + 1
        /\ stepRes.handleMetadata = "err" =>
               err = SequenceError(StoredBefore.meta.seq + 1, incoming.seq)

\* Stored sequence 1, incoming sequence 3, no skip: SequenceError{2, 3}.
C1_Witness ==
    /\ readRes = "nil"
    /\ ~SkipMetadataCheck
    /\ StoredBefore.meta.seq = 1
    /\ incoming.seq = 3
    /\ err = SequenceError(2, 3)

\* C2: when backend.ReadMetadata reports ErrMetadataNotExist, handleMetadata
\* accepts the imageset exactly when its sequence is 1, and otherwise fails
\* with SequenceError(1, incoming), whatever SkipMetadataCheck is.
C2_FirstPublishNeedsSequenceOne ==
    (Handled /\ readRes = "ErrMetadataNotExist") =>
        /\ stepRes.handleMetadata = "ok" <=> incoming.seq = 1
        /\ stepRes.handleMetadata = "err" => err = SequenceError(1, incoming.seq)

\* Empty registry, incoming sequence 2: SequenceError{1, 2}.
C2_Witness ==
    /\ readRes = "ErrMetadataNotExist"
    /\ resp = "notFound"
    /\ incoming.seq = 2
    /\ err = SequenceError(1, 2)

\* C3: a run of Publish that fails with a SequenceError has started no
\* registry operation (no push, blob fetch, prune, catalog push or metadata
\* write), has left the registry as it was, and has returned.
C3_SequenceFailureWritesNothing ==
    err.kind = "SequenceError" =>
        /\ ops = {}
        /\ registry = regBefore
        /\ pc = "done"
        /\ \A step \in DOMAIN stepRes \ {"handleMetadata"} : stepRes[step] = "none"

\* Stored sequence 1, incoming 3: the run is over with SequenceError{2, 3}.
C3_Witness ==
    /\ pc = "done"
    /\ StoredBefore.exists
    /\ err = SequenceError(2, 3)
    /\ ops = {}

\* C4 as stated, for the runs that do not set SkipMetadataCheck: a run that
\* persists metadata stores the incoming UUID and a sequence exactly one
\* greater than the one stored before it (1 when none was stored).
C4_StoredSequenceAdvancesByOne ==
    (stepRes.metadata = "ok" /\ ~SkipMetadataCheck) =>
        LET after == registry[newMetadataImage(incoming.uid)]
        IN  /\ after.exists
            /\ after.meta.uid = incoming.uid
            /\ after.meta.seq = NextSeq(StoredBefore)

\* C5: metadata is pushed in a run only after processMirroredImages,
\* unpackReleaseSignatures and processCustomImages returned nil in that run
\* and pruneRegistry returned nil or was not called; when any of the four
\* returned an error the run attempts no metadata write and leaves the
\* registry's metadata as it was.
C5_MetadataWrittenLast ==
    /\ stepRes.metadata # "none" =>
           /\ stepRes.images = "ok"
           /\ stepRes.prune \in {"ok", "skipped"}
           /\ stepRes.signatures = "ok"
           /\ stepRes.custom = "ok"
    /\ (\E step \in {"images", "prune", "signatures", "custom"} :
            pc # "idle" /\ stepRes[step] = "err") =>
           /\ "metadata" \notin ops
           /\ registry = regBefore
           /\ pc = "done"
           /\ err # NoErr

\* A run in which all four steps ran and the metadata was then pushed.
C5_Witness ==
    /\ stepRes.metadata = "ok"
    /\ stepRes.prune = "ok"
    /\ "push" \in ops
    /\ registry # regBefore

\* C6 as stated, for the runs that do not set SkipMetadataCheck: a run that
\* fails in processMirroredImages leaves the registry's metadata as it was;
\* a following run on the same archive does not fail the sequence check,
\* and when it persists metadata the stored sequence is one greater than
\* before the first attempt.
C6_RetryAdvancesByOne ==
    /\ (pc # "idle" /\ stepRes.images = "err") => registry = regBefore
    /\ (retry /\ ~SkipMetadataCheck) =>
           /\ err.kind # "SequenceError"
           /\ stepRes.metadata = "ok" =>
                  registry[newMetadataImage(incoming.uid)].meta.seq = NextSeq(StoredBefore)

\* The incoming UUID has no metadata image while another workspace has one.
NewWorkspace ==
    /\ ~StoredBefore.exists
    /\ \E u \in Uuids : regBefore[u].exists /\ u # incoming.uid

\* C7: an imageset whose UUID differs from the workspace stored in the
\* registry is never refused for its UUID: no run returns a UuidError, and
\* when the registry answers the lookup of the incoming workspace's
\* metadata image, handleMetadata takes it for a first imageset: it is
\* accepted exactly when its sequence is 1 and refused with
\* SequenceError(1, incoming) otherwise.
C7_UuidMismatchStartsNewWorkspace ==
    /\ err.kind # "UuidError"
    /\ (NewWorkspace /\ Handled /\ resp = "notFound") =>
           /\ readRes = "ErrMetadataNotExist"
           /\ curr = ZeroMeta
           /\ stepRes.handleMetadata = "ok" <=> incoming.seq = 1
           /\ stepRes.handleMetadata = "err" => err = SequenceError(1, incoming.seq)

\* u1 is stored at sequence 2; an imageset of u2 with sequence 1 was
\* accepted and published as a new workspace beside it.
C7_Witness ==
    /\ \E u \in Uuids : u # incoming.uid /\ regBefore[u].exists
                        /\ regBefore[u].meta.seq = 2
    /\ ~StoredBefore.exists
    /\ resp = "notFound"
    /\ incoming.seq = 1
    /\ stepRes.metadata = "ok"

\* C8: a run on single-use metadata never calls backend.ReadMetadata, never
\* fails with a SequenceError, never attempts a metadata write and leaves
\* the registry's metadata as it was, whatever the incoming sequence.
C8_SingleUseLeavesStateAlone ==
    (pc # "idle" /\ Stateless(incoming)) =>
        /\ readRes = "notread"
        /\ err.kind # "SequenceError"
        /\ "metadata" \notin ops
        /\ stepRes.metadata = "none"
        /\ registry = regBefore

\* A single-use imageset with sequence 3 ran to the end without error on a
\* workspace stored at sequence 1, and pushed images.
C8_Witness ==
    /\ pc = "done"
    /\ incoming.singleUse
    /\ incoming.seq = 3
    /\ StoredBefore.exists /\ StoredBefore.meta.seq = 1
    /\ err = NoErr
    /\ stepRes.custom = "ok"
    /\ "push" \in ops

UnsafeRuns ==
    {i \in DOMAIN runCalls :
        runCalls[i].err # NilError /\ ~isFailSafe(runCalls[i].err)}

\* The errors o.Mirror.Run has returned to this call, in order.
RunFailures ==
    SelectSeq(runCalls, LAMBDA c : c.err # NilError)

\* C10 as the code has it: an error of Mirror.Run that is not fail-safe is
\* the last thing the batch does.  Worker has returned an UnsafeError that
\* carries this image and error, no later image was started and Mirror.Run
\* was not called again, and errArray, holding every error of the call with
\* this one last, was handed to saveErrors, which wrote all of it to the
\* error file unless the file could not be created.
C10_UnsafeErrorAbortsBatch ==
    \A i \in UnsafeRuns :
        LET cur == mirrorErrorSchema(AllImages[runCalls[i].image], runCalls[i].err)
        IN  /\ i = Len(runCalls)
            /\ countTotal = runCalls[i].image
            /\ wpc = "returned"
            /\ workerErr = NewUnsafeError(cur)
            /\ Len(errArray) = Len(RunFailures)
            /\ \A j \in DOMAIN errArray :
                   errArray[j] = mirrorErrorSchema(AllImages[RunFailures[j].image],
                                                   RunFailures[j].err)
            /\ errArray[Len(errArray)] = cur
            /\ saveError # "notCalled"
            /\ saveError = "nil" => errorLog = errArray

\* C10 as written: after an error that is not fail-safe the error file
\* always holds the errors collected so far, this one included.
C10_UnsafeErrorAlwaysLogged ==
    \A i \in UnsafeRuns :
        /\ wpc = "returned"
        /\ workerErr.type = "UnsafeError"
        /\ errorLog = errArray

\* A batch of three: a fail-safe error on the first image, registry
\* unauthorized on the second, the third never started, both errors in the
\* error file.
C10_Witness ==
    /\ wpc = "returned"
    /\ workerErr.type = "UnsafeError"
    /\ workerErr.errSchema.err = ErrcodeError("UNAUTHORIZED")
    /\ countTotal = 2
    /\ totalImages = 3
    /\ Len(runCalls) = 2
    /\ Len(errArray) = 2
    /\ saveError = "nil"
    /\ errorLog = errArray

\* The image of AllImages a call of o.Mirror.Run was made for.
RunImage(c) == AllImages[c.image]

\* A release payload or release content image.
IsReleaseImage(img) == img.Type \in {"ocpRelease", "ocpReleaseContent"}

\* Calls of o.Mirror.Run that returned a fail-safe error for an image that
\* is neither release payload nor release content.
SafeRuns ==
    {i \in DOMAIN runCalls :
        /\ runCalls[i].err # NilError
        /\ isFailSafe(runCalls[i].err)
        /\ ~IsReleaseImage(RunImage(runCalls[i]))}

\* Calls of o.Mirror.Run that returned an error which is not fail-safe, or
\* any error for a release payload or release content image.
FatalRuns ==
    {i \in DOMAIN runCalls :
        /\ runCalls[i].err # NilError
        /\ ~isFailSafe(runCalls[i].err) \/ IsReleaseImage(RunImage(runCalls[i]))}

\* Positions of AllImages o.Mirror.Run was called for.
RunPositions == {runCalls[i].image : i \in DOMAIN runCalls}

\* C11 as the code has it: a fail-safe error on an image that is neither
\* release payload nor release content is recorded in errArray and does not
\* end the loop.  When Worker returns and no call of Mirror.Run was fatal,
\* the loop has ranged over the whole batch and Mirror.Run was called for
\* exactly the images that are not a graph image skipped in mirror-to-disk
\* or mirror-to-mirror mode; the result is then a SafeError when such an
\* error was recorded and nil when none was.  An UnsafeError is returned
\* only for a fatal call, the last one.
C11_SafeErrorContinuesBatch ==
    /\ \A i \in SafeRuns :
           \E j \in DOMAIN errArray :
               errArray[j] = mirrorErrorSchema(RunImage(runCalls[i]), runCalls[i].err)
    /\ (wpc = "returned" /\ FatalRuns = {}) =>
           /\ countTotal = totalImages
           /\ RunPositions =
                  {k \in 1..totalImages : ~GraphSkipped(AllImages[k].Type, Mode)}
           /\ SafeRuns # {} => workerErr.type = "SafeError"
           /\ SafeRuns = {} => workerErr = NilError
    /\ (wpc = "returned" /\ workerErr.type = "UnsafeError") =>
           Len(runCalls) \in FatalRuns
    /\ (wpc = "loop" /\ runCalls # <<>>) => FatalRuns = {}

\* C11 as written: after a recorded fail-safe error, and with no fatal
\* error in the batch, Mirror.Run was called for every image after the
\* failing one.
C11_RunCalledForEveryRemainingImage ==
    (wpc = "returned" /\ FatalRuns = {}) =>
        \A i \in SafeRuns :
            \A k \in (runCalls[i].image + 1)..totalImages : k \in RunPositions

\* A batch of three: manifest unknown on the first image, an additional
\* image, the other two images mirrored afterwards, SafeError returned.
C11_Witness ==
    /\ wpc = "returned"
    /\ workerErr.type = "SafeError"
    /\ totalImages = 3
    /\ Len(runCalls) = 3
    /\ runCalls[1].err = ErrcodeError("MANIFEST_UNKNOWN")
    /\ AllImages[1].Type = "generic"
    /\ runCalls[2].err = NilError
    /\ runCalls[3].err = NilError
    /\ Len(errArray) = 1

\* C12: an error of o.Mirror.Run for a release payload or release content
\* image, whatever its kind, ends the batch: it is the last call, Worker
\* has returned and the result is an UnsafeError carrying this image and
\* error.  An error of a fail-safe kind for any other image does not end
\* the batch: the loop goes on or Worker returns a SafeError.
C12_ReleaseImageErrorIsUnsafe ==
    /\ \A i \in DOMAIN runCalls :
           (runCalls[i].err # NilError /\ IsReleaseImage(RunImage(runCalls[i]))) =>
               /\ i = Len(runCalls)
               /\ wpc = "returned"
               /\ workerErr = NewUnsafeError(
                      mirrorErrorSchema(RunImage(runCalls[i]), runCalls[i].err))
    /\ \A i \in SafeRuns :
           i = Len(runCalls) =>
               \/ wpc = "loop"
               \/ wpc = "returned" /\ workerErr.type = "SafeError"

\* Manifest unknown was skipped for an operator-related image and then
\* ended the batch on a release content image.
C12_Witness ==
    /\ wpc = "returned"
    /\ Len(runCalls) = 2
    /\ AllImages[runCalls[1].image].Type = "operatorRelatedImage"
    /\ runCalls[1].err = ErrcodeError("MANIFEST_UNKNOWN")
    /\ AllImages[runCalls[2].image].Type = "ocpReleaseContent"
    /\ runCalls[2].err = ErrcodeError("MANIFEST_UNKNOWN")
    /\ workerErr.type = "UnsafeError"
    /\ countTotal < totalImages

\* isFailSafe has classified cErr.
Classified == cpc \in {"classified", "again"}

\* Errors that stand for another error, their cause.
IsWrapping(e) ==
    \/ e.type \in {"net.OpError", "url.Error", "unwrapper"}
    \/ e.type = "net.Error" /\ e.Unwrappable

IsAggregate(e) == e.type \in {"errcode.Errors", "multierror.Error"}

\* The errnos isErrnoRetryable names, and ERESTART.
RetryableErrnos == Errnos \ {"EPERM"}

\* What C13 says of the errors that hold no other error; what it says of
\* aggregates; that the classification of an error does not change.
C13_LeavesAndAggregates ==
    /\ cErr.type \in {"nil", "context.Canceled", "context.DeadlineExceeded"} => ~cSafe
    /\ cErr.type = "errcode.Error" =>
           (cSafe <=> cErr.Code \notin {"UNAUTHORIZED", "DENIED"})
    /\ (cErr.type = "syscall.Errno" /\ cErr.Errno \in RetryableErrnos) => cSafe
    /\ (cErr.type = "net.Error" /\ cErr.Timeout) => cSafe
    /\ IsAggregate(cErr) =>
           (cSafe <=> \A i \in DOMAIN cErr.Errors : isFailSafe(cErr.Errors[i]))
    /\ cpc = "again" => cAgain = cSafe

\* C13 as the code has it: the classification of the errors that hold no
\* other error and of aggregates is as stated, and never changes; an error
\* that wraps another is classified as its cause, with two exceptions: a
\* url.Error whose cause is io.EOF is fail-safe although io.EOF is not, and
\* a net.Error whose Timeout() is true is fail-safe whatever it wraps.
C13_FailSafeByKind ==
    Classified =>
        /\ C13_LeavesAndAggregates
        /\ (cErr.type = "url.Error" /\ cErr.Err = EOF) => cSafe /\ ~isFailSafe(EOF)
        /\ (/\ IsWrapping(cErr)
            /\ ~(cErr.type = "url.Error" /\ cErr.Err = EOF)
            /\ ~(cErr.type = "net.Error" /\ cErr.Timeout)) =>
               (cSafe <=> isFailSafe(cErr.Err))

\* C13 as written: every error that wraps another is classified as its
\* wrapped cause.
C13_WrappedClassifiedAsCause ==
    (Classified /\ IsWrapping(cErr)) => (cSafe <=> isFailSafe(cErr.Err))

\* Connection refused inside a url.Error was classified fail-safe, twice.
C13_Witness ==
    /\ cpc = "again"
    /\ cErr = UrlError(Errno("ECONNREFUSED"))
    /\ cSafe
    /\ cAgain

\* The source/mirror entries of a list of ICSPs, and how many there are.
emittedPairs(docs) ==
    UNION {{<<m.Source, m.Mirrors[1]>> :
                m \in {docs[i].RepositoryDigestMirrors[j] :
                          j \in DOMAIN docs[i].RepositoryDigestMirrors}} :
           i \in DOMAIN docs}

RECURSIVE emittedCount(_)
emittedCount(docs) ==
    IF Len(docs) = 0 THEN 0
    ELSE Len(docs[1].RepositoryDigestMirrors) + emittedCount(Tail(docs))

\* Run has returned without error.
IcspReturnedNil == ipc = "returned" /\ icspErr = NoIcspErr

\* C14: when icspGenerator.Run returns without error, every ICSP it
\* returns serializes to at most byteLimit bytes, and the mirrors of the
\* returned ICSPs together are the scoped mirrors of the input mapping:
\* none is lost and none is in two ICSPs.
C14_EmittedMirrorsAreScopedInput ==
    IcspReturnedNil =>
        /\ \A i \in DOMAIN icspResult : yamlLen(icspResult[i]) <= byteLimit
        /\ emittedPairs(icspResult) = scopedPairs(icspScope, icspMapping)
        /\ emittedCount(icspResult) = Cardinality(emittedPairs(icspResult))

\* len(y) of the first ICSP of this call holding nothing but the mirror of
\* key.
aloneLen(key) ==
    yamlLen([emptyICSP(icspName, icspType, 0) EXCEPT
                !.RepositoryDigestMirrors = <<digestMirror(key, scoped[key])>>])

\* The source keys whose mirror alone is over the byte limit.
OversizeKeys == {key \in DOMAIN scoped : aloneLen(key) > byteLimit}

\* C15: when the mirror of some source key, alone in an otherwise empty
\* ICSP, serializes to more than the byte limit, Run returns the cannot-fit
\* error naming such a key (that key when it is the only one) and returns
\* no ICSP.
C15_OversizeMirrorIsAnError ==
    (ipc = "returned" /\ OversizeKeys # {}) =>
        /\ icspErr.kind = "cannotFit"
        /\ icspErr.key \in OversizeKeys
        /\ icspErr.limit = byteLimit
        /\ icspResult = <<>>

\* Run returned the cannot-fit error after it had already appended an ICSP
\* holding another mirror.
C15_Witness ==
    /\ ipc = "returned"
    /\ Cardinality(OversizeKeys) = 1
    /\ icspErr = CannotFitError(CHOOSE key \in OversizeKeys : TRUE, byteLimit)
    /\ Len(icsps) > 0
    /\ icspResult = <<>>

\* The source/mirror entries Run holds: in the ICSP it is building, in the
\* ICSPs it has appended and in the ICSPs it returned.
IcspEntries == emittedPairs(<<icsp>>) \cup emittedPairs(icsps) \cup emittedPairs(icspResult)

\* The mappings of this call whose destination has no digest.
DigestlessSources == {k \in DOMAIN icspMapping : icspMapping[k].ID = ""}

\* C16: every source/mirror entry of an ICSP comes from a mapping whose
\* destination carries a digest, whatever the scope; a mapping without
\* digest contributes none.
C16_OnlyDigestMappingsContribute ==
    \A pair \in IcspEntries :
        \E k \in DOMAIN icspMapping \ DigestlessSources :
            /\ pair[1] = scopeSource(icspScope, k)
            /\ pair[2] = scopeDest(icspScope, k, icspMapping[k])

\* Run returned ICSPs for a mapping that also held a destination without
\* digest, and the scoped source of that mapping is in none of them.
C16_Witness ==
    /\ IcspReturnedNil
    /\ icspResult # <<>>
    /\ \E k \in DigestlessSources :
          \A pair \in emittedPairs(icspResult) : pair[1] # scopeSource(icspScope, k)

\* sub occurs in the string str.
contains(str, sub) ==
    \E i \in 1..(Len(str) - Len(sub) + 1) : SubSeq(str, i, i + Len(sub) - 1) = sub

\* The image field of the CatalogSource generateCatalogSource returned.
CatalogImage == catalogSource.spec.image

\* C17: generateCatalogSource prefers the tag.  When the destination has
\* a tag, the image field holds the tag and no digest; a digest is in the
\* image field only when the destination has no tag.
C17_CatalogSourcePrefersTag ==
    gpc = "returned" =>
        /\ csDest.Tag # "" =>
              /\ contains(CatalogImage, ":" \o csDest.Tag)
              /\ ~contains(CatalogImage, "@")
              /\ csDest.ID # "" => ~contains(CatalogImage, csDest.ID)
        /\ contains(CatalogImage, "@") =>
              /\ csDest.Tag = ""
              /\ csDest.ID # ""
              /\ contains(CatalogImage, "@" \o csDest.ID)

\* A destination with both tag and digest got an image field with the
\* tag.
C17_Witness ==
    /\ gpc = "returned"
    /\ csDest.Tag # ""
    /\ csDest.ID # ""
    /\ CatalogImage = AsRepositoryString(csDest) \o ":" \o csDest.Tag

\* strings.HasPrefix(str, prefix).
hasPrefix(str, prefix) ==
    Len(prefix) <= Len(str) /\ SubSeq(str, 1, Len(prefix)) = prefix

\* The entries of all chunk files under archivePath, in order.
AllEntries == archiveDir.first \o archiveDir.later

\* The chunk files are the archive of a workspace: the first chunk is
\* there, every entry is a regular file, no path occurs twice, and every
\* path is in the working-dir tree, in the cache tree or at the top level.
IsWorkspaceArchive ==
    /\ archiveDir.present
    /\ \A i \in DOMAIN AllEntries :
        /\ AllEntries[i].Typeflag = "TypeReg"
        /\ \A j \in DOMAIN AllEntries : AllEntries[i].Name = AllEntries[j].Name => i = j
        /\ \/ hasPrefix(AllEntries[i].Name, workingDirectory \o "/")
           \/ hasPrefix(AllEntries[i].Name, cacheFilePrefix \o "/")
           \/ ~stringsContains(AllEntries[i].Name, "/")

\* The files of the archived workspace at the places they belong to: the
\* working-dir tree in workingDir, the cache tree under cacheDir.
WorkspaceFiles ==
    {<<filepathJoin(filepathDir(workingDir), AllEntries[i].Name), AllEntries[i].content>> :
        i \in {j \in DOMAIN AllEntries :
                 hasPrefix(AllEntries[j].Name, workingDirectory \o "/")}}
    \cup
    {<<filepathJoin(cacheDir, AllEntries[i].Name), AllEntries[i].content>> :
        i \in {j \in DOMAIN AllEntries :
                 hasPrefix(AllEntries[j].Name, cacheFilePrefix \o "/")}}

\* The files on disk with their content.
FilesOnDisk == {<<path, fsFiles[path]>> : path \in DOMAIN fsFiles}

\* Unarchive has returned without error.
UnarchiveReturnedNil == upc = "returned" /\ unarchiveErr = NoUnarchiveErr

\* C18: round trip.  When the chunk files are the archive of a workspace,
\* in one chunk or in several, and Unarchive returns without error, the
\* files on disk are exactly the working-dir and cache files of the
\* workspace, with the same content.
C18_RoundTripRestoresWorkspace ==
    (UnarchiveReturnedNil /\ IsWorkspaceArchive) => FilesOnDisk = WorkspaceFiles

\* The entries Unarchive has dealt with so far.
EntriesDone == 1..(readPos - 1)

\* The paths Unarchive opened for the entry at position i.
PathsOf(i) == {extracted[k].path : k \in {j \in DOMAIN extracted : extracted[j].entry = i}}

\* C19: every regular entry is classified by the prefix of its path.  An
\* entry under the working-dir prefix is written under workingDir, an
\* entry under the cache prefix under cacheDir, any other entry produces no
\* file; no entry is written to both trees.
C19_ClassifiedByPathPrefix ==
    \A i \in EntriesDone :
        LET header == archiveDir.first[i]
        IN  header.Typeflag = "TypeReg" =>
                IF hasPrefix(header.Name, workingDirectory \o "/")
                THEN PathsOf(i) = {filepathJoin(filepathDir(workingDir), header.Name)}
                ELSE IF hasPrefix(header.Name, cacheFilePrefix \o "/")
                THEN PathsOf(i) = {filepathJoin(cacheDir, header.Name)}
                ELSE PathsOf(i) = {}

BlockedAdditional == {i \in DOMAIN AdditionalImages : AdditionalImages[i].Blocked}

\* The first listed image for which the loop of GetAdditional returns an
\* error.
FirstFailing ==
    CHOOSE i \in DOMAIN AdditionalImages :
        /\ bodyOfLoopNeverBlocked(AdditionalImages[i]) # NoAddErr \/ AdditionalImages[i].Blocked
        /\ \A j \in 1..(i - 1) :
              /\ bodyOfLoopNeverBlocked(AdditionalImages[j]) = NoAddErr
              /\ ~AdditionalImages[j].Blocked

\* C21 as the code has it: when an additional image is also blocked,
\* GetAdditional returns an error and opts.Run is never called, not even
\* for the images listed before the blocked one.  The error is the
\* "also specified as blocked" error of the first blocked image, unless
\* the pull secret or the name of that image or of an image listed before
\* it is rejected first; then it is that error.
C21_BlockedAdditionalNeverMirrored ==
    BlockedAdditional # {} =>
        /\ addRunCalls = <<>>
        /\ apc = "returned" =>
              LET img == AdditionalImages[FirstFailing]
              IN  /\ addErr.name = img.Name
                  /\ addErr.kind = IF img.PullSecret = "bad" THEN "context"
                                   ELSE IF img.Parses = "notSource" THEN "parseSource"
                                   ELSE IF img.Parses = "notDestination"
                                   THEN "parseDestination"
                                   ELSE "blocked"

\* C21 as written: when an additional image is also blocked, GetAdditional
\* returns the "also specified as blocked" error and opts.Run is never
\* called.
C21_BlockedErrorReturned ==
    (BlockedAdditional # {} /\ apc = "returned") =>
        /\ addErr.kind = "blocked"
        /\ addRunCalls = <<>>

\* GetAdditional returned the blocked error for the second image after it
\* had appended the mapping of the first, and opts.Run was not called.
C21_Witness ==
    /\ apc = "returned"
    /\ BlockedAdditional = {2}
    /\ addMappings = <<AdditionalImages[1].Name>>
    /\ addErr = AddError("blocked", AdditionalImages[2].Name)
    /\ addRunCalls = <<>>

\* The entries of mappings whose source a blocked predicate matches.
BlockedMappings == {m \in mmInput : m.blockedBy \cap mmFuncs # {}}

\* C22 as the code has it: a blocked mapping is never handed to the image
\* mirrorer, and when every source and destination parses a blocked mapping
\* causes no error; when the mirrorer is run it is handed exactly the
\* mappings that are not blocked.  A reference that does not parse makes
\* mirrorMappings return that error, and then, as when a.Validate fails, the
\* mirrorer is not run at all.
C22_BlockedMappingsLeftOut ==
    /\ mmappings \cap BlockedMappings = {}
    /\ Len(mmHanded) <= 1
    /\ \A k \in DOMAIN mmHanded : mmHanded[k] = mmInput \ BlockedMappings
    /\ mmErr.kind # "nil" =>
          /\ mmHanded = <<>>
          /\ \E m \in mmInput : m.Parses # "both" /\ m.from = mmErr.from
    /\ (mpc = "returned" /\ \A m \in mmInput : m.Parses = "both") => mmErr.kind = "nil"

\* C22 as written: once mirrorMappings has returned, no blocked mapping was
\* handed to the mirrorer or caused the error, and every mapping that is
\* not blocked was handed to the mirrorer.
C22_EveryUnblockedMappingHanded ==
    mpc = "returned" =>
        /\ \A m \in BlockedMappings :
              /\ \A k \in DOMAIN mmHanded : m \notin mmHanded[k]
              /\ mmErr.kind # "nil" => mmErr.from # m.from
        /\ \A m \in mmInput \ BlockedMappings :
              \E k \in DOMAIN mmHanded : m \in mmHanded[k]

\* mirrorMappings returned nil after it handed the one mapping that is not
\* blocked to the mirrorer and left the blocked one out.
C22_Witness ==
    /\ mpc = "returned"
    /\ mmErr.kind = "nil"
    /\ Cardinality(mmInput) = 2
    /\ Cardinality(BlockedMappings) = 1
    /\ mmHanded = <<mmInput \ BlockedMappings>>

\* Positions of the images of a declarative config: <<i, 0>> is the image of
\* bundle i, <<i, j>> its related image j.
PinPositions(bundles) ==
    {<<i, j>> : i \in DOMAIN bundles, j \in 0..MaxPinImages} \cap
    UNION {{<<i, j>> : j \in 0..Len(bundles[i].RelatedImages)} : i \in DOMAIN bundles}

PinImageAt(bundles, p) ==
    IF p[2] = 0 THEN bundles[p[1]].Image ELSE bundles[p[1]].RelatedImages[p[2]]

PinCompleted == ppc = "returned" /\ pinErr # [kind |-> "resolver"]

\* C23: once the resolver exists, pinImages attempts every bundle image and
\* every related image that is not digest-addressed, whatever happened to
\* the other images (the bundle image of the same bundle included): every
\* such image has been looked at, every tagged image that resolves is
\* replaced in place by its digest form, and the returned aggregate holds
\* exactly one error for every tagged image that does not resolve.
C23_EveryImageAttempted ==
    PinCompleted =>
        /\ \A p \in PinPositions(pinInput) :
            /\ ~IsImagePinned(PinImageAt(pinInput, p)) => p \in pinSeen
            /\ PinImageAt(pinInput, p) = "tag" => PinImageAt(pinBundles, p) = "digest"
        /\ {<<e.bundle, e.related>> : e \in {pinErrs[k] : k \in DOMAIN pinErrs}}
            = {p \in PinPositions(pinInput) : PinImageAt(pinInput, p) = "badtag"}
        /\ pinErr = PinAggregate(pinErrs)

HeadsOf(dc, pkg) == {dc[i].head : i \in {k \in DOMAIN dc : dc[k].package = pkg}}

PackagesOf(dc) == {dc[i].package : i \in DOMAIN dc}

SoundCatalogs ==
    {c \in DOMAIN rbInput : rbInput[c].step \in {"found", "notFound"} /\ rbInput[c].digestOk}

\* C26 as stated: a failure while rebuilding one catalog image is isolated
\* to that catalog: every other catalog found in the archive is rebuilt
\* and pushed, and its mapping is returned.
C26_FailureIsolatedToCatalog ==
    (rbpc = "returned" /\ rbErr.kind \notin {"parse", "walk", "resolver", "registry"}) =>
        /\ SoundCatalogs \subseteq rbPushed
        /\ ~rbRefs.isNil
        /\ SoundCatalogs \subseteq rbRefs.digests

\* C26: the first failure while rebuilding a catalog image ends
\* rebuildCatalogs: the catalogs the loop has not reached are not rebuilt,
\* no mapping with a resolved digest is returned, and the error names the
\* failing catalog; only when no catalog fails are all catalogs pushed and
\* all mappings returned.
C26_FirstFailureEndsRebuild ==
    rbpc = "returned" =>
        /\ rbErr = NoRebuildErr <=> (rbRefs.digests = DOMAIN rbInput /\ ~rbRefs.isNil)
        /\ rbErr = NoRebuildErr =>
            /\ SoundCatalogs = DOMAIN rbInput
            /\ rbPushed = DOMAIN rbInput
        /\ rbErr # NoRebuildErr =>
            /\ rbRefs.digests = {}
            /\ rbRefs.isNil \/ rbErr.kind = "layer"
            /\ rbPushed \cap rbRemaining = {}
            /\ rbErr.catalog \in DOMAIN rbInput => rbErr.catalog \notin SoundCatalogs
            /\ rbErr.kind \notin {"digest", "parse", "walk", "resolver", "registry"} =>
                   rbPushed = (DOMAIN rbInput \ rbRemaining) \ {rbErr.catalog}

\* rebuildCatalogs returned the build error of one catalog while another
\* catalog, whose own rebuild would succeed, was never rebuilt.
C26_Witness ==
    /\ rbpc = "returned"
    /\ rbErr.kind = "build"
    /\ rbRefs.isNil
    /\ \E c \in rbRemaining : c \in SoundCatalogs /\ c \notin rbPushed

\* C27 as stated: unless skip-cleanup is set, every temporary directory a
\* run created (the publish workspace and every per-image unpack
\* directory) has been removed when Publish returns, whatever the exit
\* path.
C27_TempDirsRemovedOnReturn ==
    (xpc = "returned" /\ ~SkipCleanup) => tmpDirs = {}

\* The layers the associations of the archive refer to.
ReferencedLayers == {<<i, d>> : i \in DOMAIN imageLayers, d \in LayerDigests} \cap
                    UNION {{<<i, d>> : d \in imageLayers[i]} : i \in DOMAIN imageLayers}

\* C28: when Publish records the imageset as published, every layer digest
\* an association refers to was unpacked from the archive or was found in
\* the published metadata and fetched from the mirror registry; when some
\* referenced layer is in neither, Publish returns an error and the
\* imageset is not recorded.
C28_LayersUnpackedOrFetched ==
    xpc = "returned" =>
        /\ (xRecorded \/ xErr = NoUnpackErr) =>
            \A p \in ReferencedLayers :
                \/ blobIn[p[2]] = "archive" /\ <<p[1], p[2], "unpacked">> \in blobFiles
                \/ blobIn[p[2]] = "metadata" /\ <<p[1], p[2], "fetched">> \in blobFiles
        /\ (\E p \in ReferencedLayers : blobIn[p[2]] = "neither") =>
            xErr # NoUnpackErr /\ ~xRecorded

\* Publish failed in fetchBlobs for a layer that is in neither place, after
\* the image before it had its layer fetched from the mirror.
C28_Witness ==
    /\ xpc = "returned"
    /\ xErr = UnpackError("fetchBlobs")
    /\ ~xRecorded
    /\ Len(imageLayers) = 2
    /\ \E d \in imageLayers[1] : blobIn[d] = "metadata" /\ <<1, d, "fetched">> \in blobFiles
    /\ \E d \in imageLayers[2] : blobIn[d] = "neither"

\* The image names whose associations hold the digest asked for.
BlobHolders == {name \in DOMAIN blobAssocs : layerDigest \in blobAssocs[name].LayerDigests}

\* The repository of an image name in the mirror registry, below the user
\* namespace.
MirrorRepoOf(name) ==
    LET ref == CHOOSE r \in BlobImages : Exact(r) = name IN
    [Registry |-> "registry.com",
     Namespace |-> IF UserNamespace = "" THEN ref.Namespace
                   ELSE IF ref.Namespace = "" THEN UserNamespace
                   ELSE UserNamespace \o "/" \o ref.Namespace,
     Name |-> ref.Name]

FilterOf(op) == [Catalog |-> op.Catalog, Packages |-> op.Packages]

\* C30: two operator entries that differ only in TargetCatalog, TargetTag
\* or TargetCatalogSourceTemplate have the same fingerprint, two entries
\* that differ in the catalog or in the include filter have different
\* fingerprints, and digestOfFilter leaves the caller's entry as it was.
C30_FingerprintIgnoresTargetFields ==
    /\ dfOps = dfGiven
    /\ dpc = 2 =>
        (dfDigests[1] = dfDigests[2] <=> FilterOf(dfGiven[1]) = FilterOf(dfGiven[2]))

\* Two entries of one catalog and one include filter with different target
\* fields got one fingerprint.
C30_Witness ==
    /\ dpc = 2
    /\ dfGiven[1].Catalog = "c1" /\ dfGiven[1].Packages = <<"p", "q">>
    /\ FilterOf(dfGiven[2]) = FilterOf(dfGiven[1])
    /\ dfGiven[1].TargetCatalog # dfGiven[2].TargetCatalog
    /\ dfGiven[1].TargetTag # dfGiven[2].TargetTag
    /\ dfGiven[1].TargetCatalogSourceTemplate # dfGiven[2].TargetCatalogSourceTemplate
    /\ dfDigests[1] = dfDigests[2]
    /\ dfOps = dfGiven

\* Filter f is what the claim gives for IncludeBundle b.
NormalizedAs(b, f) ==
    /\ (b.MinVersion # "" /\ b.MaxVersion # "") =>
           f = [Range |-> ">=" \o b.MinVersion \o " <=" \o b.MaxVersion,
                Versions |-> <<>>, Bundles |-> <<>>]
    /\ (b.MinVersion = "" /\ b.MaxVersion # "") =>
           f = [Range |-> "<=" \o b.MaxVersion, Versions |-> <<>>, Bundles |-> <<>>]
    /\ (b.MinVersion # "" /\ b.MaxVersion = "") =>
           f = [Range |-> "", Versions |-> <<semverParse(b.MinVersion)>>, Bundles |-> <<>>]
    /\ (b.MinVersion = "" /\ b.MaxVersion = "" /\ b.MinBundle # "") =>
           f = [Range |-> "", Versions |-> <<>>, Bundles |-> <<b.MinBundle>>]

\* C31: ConvertToDiffIncludeConfig gives, for every package and every
\* channel, Range ">=min <=max" for both versions, Range "<=max" for the
\* largest version alone, a Versions list of the smallest version alone, a
\* Bundles list of minBundle alone, under the same names and in the same
\* order; a configuration whose first package without a name is at index i
\* (from 0) is rejected with "package i requires a name".
C31_FiltersNormalized ==
    vpc = "returned" =>
        IF \A i \in 1..Len(includeCfg) : includeCfg[i].Name # ""
        THEN /\ convErr = NoConvertErr
             /\ Len(diffCfg) = Len(includeCfg)
             /\ \A i \in 1..Len(includeCfg) :
                 /\ diffCfg[i].Name = includeCfg[i].Name
                 /\ NormalizedAs(includeCfg[i].IncludeBundle, diffCfg[i].Filter)
                 /\ Len(diffCfg[i].Channels) = Len(includeCfg[i].Channels)
                 /\ \A c \in 1..Len(includeCfg[i].Channels) :
                     /\ diffCfg[i].Channels[c].Name = includeCfg[i].Channels[c].Name
                     /\ NormalizedAs(includeCfg[i].Channels[c].IncludeBundle,
                                     diffCfg[i].Channels[c].Filter)
        ELSE \E i \in 1..Len(includeCfg) :
                 /\ includeCfg[i].Name = ""
                 /\ \A j \in 1..(i - 1) : includeCfg[j].Name # ""
                 /\ convErr.kind = "error"
                 /\ convErr.msg = "package " \o ToString(i - 1) \o " requires a name"

\* The first package has channel stable from 0.1.0 to 0.2.0 and the second
\* has the smallest version 0.1.0 alone: the channel got the range
\* ">=0.1.0 <=0.2.0" and the second package the one version 0.1.0.
C31_Witness ==
    /\ vpc = "returned"
    /\ Len(includeCfg) = 2
    /\ Len(includeCfg[1].Channels) = 1
    /\ includeCfg[1].Channels[1].IncludeBundle =
           [MinVersion |-> "0.1.0", MaxVersion |-> "0.2.0", MinBundle |-> ""]
    /\ includeCfg[2].IncludeBundle =
           [MinVersion |-> "0.1.0", MaxVersion |-> "", MinBundle |-> ""]
    /\ convErr = NoConvertErr
    /\ diffCfg[1].Channels[1].Filter.Range = ">=0.1.0 <=0.2.0"
    /\ diffCfg[2].Filter.Versions = <<[Major |-> 0, Minor |-> 1, Patch |-> 0]>>
    /\ diffCfg[2].Filter.Range = ""

\* Two release channels of the configuration validated have one name.
DuplicateChannels ==
    \E i, j \in 1..Len(validated.Channels) :
        i # j /\ validated.Channels[i] = validated.Channels[j]

\* No operator catalog defines packages with headsOnly set.
OperatorOptionsPass ==
    \A i \in 1..Len(validated.Operators) :
        ~(validated.Operators[i].Packages /\ validated.Operators[i].HeadsOnly)

\* C32: Validate returns an error naming a duplicate release channel for a
\* configuration in which two release channels have the same name, and
\* returns nil for one whose channel names are distinct and whose operator
\* options pass.
C32_DuplicateChannelsRejected ==
    vapc = "returned" =>
        /\ DuplicateChannels =>
               /\ validateErr.kind = "aggregate"
               /\ \E i \in 1..Len(validateErr.errs), c \in 1..Len(validated.Channels) :
                      validateErr.errs[i] = DuplicateChannel(validated.Channels[c])
        /\ (~DuplicateChannels /\ OperatorOptionsPass) => validateErr = NoValidateErr

\* channel1, channel2, channel1 with passing operator options: Validate
\* returned the one error for channel1.
C32_Witness ==
    /\ vapc = "returned"
    /\ validated.Channels = <<"channel1", "channel2", "channel1">>
    /\ OperatorOptionsPass
    /\ validateErr = [kind |-> "aggregate", errs |-> <<DuplicateChannel("channel1")>>]

\* The catalog's repository name is a prefix of repository path dst: dst is
\* a repository below the catalog's.
CatalogIsPrefixOf(dst) == stringsHasPrefix(dst, ctlgRepo \o "/")

\* C33 as stated: a mapping whose destination repository does not have the
\* catalog's repository name as a prefix makes the call fail with an error,
\* and when every destination has it, each destination returned is the
\* repository path with the catalog prefix removed.
C33_NonConformingRejected ==
    spc = "returned" =>
        IF \E s \in DOMAIN readMappings : ~CatalogIsPrefixOf(readMappings[s])
        THEN stripErr \notin {NoStripErr, MirrorMappingsError} /\ outMappings = << >>
        ELSE /\ stripErr \in {NoStripErr, MirrorMappingsError}
             /\ DOMAIN outMappings = DOMAIN readMappings
             /\ \A s \in DOMAIN readMappings :
                    ctlgRepo \o "/" \o outMappings[s] = readMappings[s]

C35_NotExistOnlyWhenAbsent ==
    /\ readRes = "ErrMetadataNotExist" => ~StoredBefore.exists
    /\ (readRes # "notread" /\ resp = "unauthorized") => readRes = "err"

\* Image img is in the list the collector returned.
Scheduled(img) == \E i \in 1..Len(kAllImages) : kAllImages[i].Source = "docker://" \o img

\* C36 as stated: after every collection of a mirror-to-disk run that
\* returned no error, every declared image whose copy has never completed
\* is in the list returned, and an image left out was copied before.
C36_UncopiedScheduledAgain ==
    (kpc = "collected" /\ kErr = NoCollectorErr) =>
        \A i \in 1..Len(kDeclared) : kDeclared[i] \notin kCopied => Scheduled(kDeclared[i])

\* The images of operator entry op: the catalog image and the related
\* images of its bundles.
ImagesOfCatalog(op) ==
    {catalogRelatedImage(oCollector, op)} \cup imagesOf(RelatedImagesFromCatalog(op.Catalog))

\* C37 as stated: when OperatorImageCollector returns without error, the
\* images returned hold, for every operator entry the loop did not skip,
\* the catalog image and the related images of the catalog.
C37_EveryCatalogCollected ==
    (opc = "returned" /\ oErr = NoCollectErr) =>
        \A i \in (1..Len(oOperators)) \ oSkipped : ImagesOfCatalog(oOperators[i]) \subseteq oAllImages

\* C38 as stated: after ReconcileBlobs, meta.PastBlobs lists every blob
\* name at most once, and a blob a prior run recorded was neither recorded
\* again nor moved by this call.
C38_PastBlobsListNamesOnce ==
    qpc = "reconciled" =>
        /\ \A i, j \in 1..Len(PastBlobs) : i # j => PastBlobs[i] # PastBlobs[j]
        /\ \A p \in qMoved : infoName(p) \notin NamesOf(qPastBefore)
        /\ SubSeq(PastBlobs, 1, Len(qPastBefore)) = qPastBefore

\* ------------------------------------------------------------------ C39

\* The images of this call for which o.Mirror.Run was called and returned
\* nil, in the order of the batch.
CopiedThisCall ==
    LET succeeded == SelectSeq(runCalls, LAMBDA c : c.err = NilError)
    IN  [i \in 1..Len(succeeded) |-> RunImage(succeeded[i])]

\* What o.CopiedImages.AllImages holds besides the images of this call.
CopiedEarlier ==
    IF Len(CopiedThisCall) <= Len(CopiedImages)
    THEN SubSeq(CopiedImages, 1, Len(CopiedImages) - Len(CopiedThisCall))
    ELSE <<>>

IcspRunning == ipc \in {"outer", "inner", "append"}

\* The source keys of a list of ICSPs.
emittedSources(docs) == {p[1] : p \in emittedPairs(docs)}

\* After the inner loop of an outer iteration that did not return: the
\* ICSP holds at least one mirror and every key it holds has been deleted
\* from registryMapping.
IterationRemovedKeys ==
    ipc = "append" =>
        /\ Len(icsp.RepositoryDigestMirrors) >= 1
        /\ emittedSources(<<icsp>>) \cap DOMAIN registryMapping = {}
        /\ emittedSources(<<icsp>>) \subseteq DOMAIN scoped

\* The ICSPs appended so far: one per finished outer iteration, named
\* <name>-0, <name>-1, ... in order, and no more of them than keys deleted.
IcspsCountedAndNamed ==
    (IcspRunning \/ ipc = "returned") =>
        /\ ipc = "outer" => Len(icsps) = icspCount
        /\ \A i \in DOMAIN icsps :
               icsps[i].Name = icspObjectName(icspName, i - 1)
        /\ Len(icsps) + Cardinality(DOMAIN registryMapping)
               <= Cardinality(DOMAIN scoped)
        /\ Len(icsps) <= Cardinality(DOMAIN scoped)

\* What Run returns: the appended ICSPs once no key remains, or no ICSP and
\* the cannot-fit error.
IcspReturnsListOrCannotFit ==
    ipc = "returned" =>
        \/ /\ icspErr = NoIcspErr
           /\ DOMAIN registryMapping = {}
           /\ icspResult = icsps
        \/ /\ icspErr.kind = "cannotFit"
           /\ icspResult = <<>>

\* A step of Run can be taken.
IcspRunCanStep ==
    IcspRunning =>
        ENABLED (\/ IcspOuter
                 \/ \E key \in DOMAIN registryMapping : IcspInner(key)
                 \/ IcspAppend
                 \/ IcspReturn)

\* What every step of Run short of its return makes smaller: the remaining
\* keys first, then the place in the outer iteration (an inner loop whose
\* ICSP holds a mirror, the append, the loop test, an inner loop whose ICSP
\* holds none).
IcspVariant ==
    4 * Cardinality(DOMAIN registryMapping)
        + (CASE ipc = "inner" /\ Len(icsp.RepositoryDigestMirrors) >= 1 -> 3
             [] ipc = "append" -> 2
             [] ipc = "outer" -> 1
             [] OTHER -> 0)

\* C40: icspGenerator.Run terminates for every mapping and byte limit of
\* the model: while Run has not returned a step of it can be taken, and
\* every step either returns or makes smaller a natural number that falls
\* by four with each key deleted.  Each outer iteration either deletes at
\* least one key of the remaining registry mapping or returns the
\* cannot-fit error, so there are never more ICSPs than distinct scoped
\* sources and their names are <name>-0, <name>-1, ... without gaps.
C40_RunTerminates ==
    /\ [](/\ IterationRemovedKeys
          /\ IcspsCountedAndNamed
          /\ IcspReturnsListOrCannotFit
          /\ IcspRunCanStep)
    /\ [][IcspRunning => (ipc' = "returned" \/ IcspVariant' < IcspVariant)]_vars

\* Run returned two ICSPs, <name>-0 and <name>-1, for two scoped sources
\* that do not fit into one ICSP.
C40_Witness ==
    /\ ipc = "returned"
    /\ icspErr = NoIcspErr
    /\ Cardinality(DOMAIN scoped) = 2
    /\ Len(icspResult) = 2
    /\ icspResult[1].Name = icspObjectName(icspName, 0)
    /\ icspResult[2].Name = icspObjectName(icspName, 1)

====
